---------------------------- MODULE Spec2Model ----------------------------
(***************************************************************************)
(* Meal-stipend balance service (Firebase Functions, TypeScript).          *)
(*                                                                         *)
(* Strings are modelled as sequences of characters.  The module text is    *)
(* ASCII, so every Hangul syllable is written as its romanised token:      *)
(*   "eob" 업  "mu" 무  "il" 일  "hyu" 휴  "geun" 근  "o" 오  "jeon" 전      *)
(*   "sik" 식  "dae" 대  "jeong" 정  "ri" 리  "nyeon" 년  "sang" 상           *)
(*   "ban" 반  "gi" 기  "ha" 하  "gim" 김  "i" 이  "jae" 재  "taek" 택        *)
(*   "wol" 월  "won" 원                                                     *)
(*   "j_g" "j_i" "j_m" are the conjoining jamo U+1100 U+1175 U+11B7, the   *)
(*   canonical decomposition (NFD) of 김.                                  *)
(* So 업무일 is <<"eob","mu","il">> and 휴무 is <<"hyu","mu">>.              *)
(***************************************************************************)
EXTENDS Integers, Sequences, FiniteSets, TLC

VARIABLES
  build,            \* which name normaliser the build links: "raw", "prefix", "suffix"
  targetYear,       \* request parameter sheetYear, after validation
  targetMonth,      \* request parameter sheetMonth, after validation
  data,             \* ExcelRowData[] of the employee being calculated
  employeeName,     \* raw employee identifier handed to calculateEmployee
  emp,              \* EmployeeResult returned by calculateEmployee, or None
  employeeDataMap,  \* Map<string, ExcelRowData[]>, in insertion order
  downloadUrlMap,   \* Map<string, string>
  results,          \* EmployeeResult[] returned by calculateAllEmployees
  phase,            \* "load" while the maps are filled, "done" after the calculation
  storedFileName,   \* file name handed to cleanACGTemplateFileName
  templateName,     \* the name the file name was built from
  cleanedNamePrefix,  \* return value of the prefix-policy normaliser, or None
  cleanedNameSuffix,  \* return value of the suffix-policy normaliser, or None
  writtenNames,     \* the names updateGoogleSheet puts in column B, or None
  excelLib,         \* which ExcelService the build links: "xlsx", "exceljs"
  worksheet,        \* rows of the sheet, as the library hands them over
  range,            \* the range argument of extractData
  extractedData,    \* return value of extractData, an error, or None
  endpoint,         \* the controller method serving the request
  query,            \* request.query: sheetYear and sheetMonth
  excelFiles,       \* the Excel files of the folder, as storage lists them
  storageUp,        \* whether listing the folder succeeds
  fileIndex,        \* position of the loop over excelFiles
  pc,               \* the statement the request handler is at
  responses,        \* status codes sent on the response, in order
  trace,            \* storage, extraction and calculation operations performed
  responseData,     \* body of the 200 answer of calculate, or None
  spreadsheet,      \* the destination sheet of the Google spreadsheet
  requests,         \* the running calls of updateGoogleSheetWithAutoCreate
  apiCalls,         \* Google Sheets API calls made, each with its step in its request
  apiFaults         \* whether a Google Sheets API call may fail for no reason

nameVars ==
  <<storedFileName, templateName, cleanedNamePrefix, cleanedNameSuffix, writtenNames>>
extractVars == <<excelLib, worksheet, range, extractedData>>
calcVars == <<data, employeeName, emp, employeeDataMap, downloadUrlMap, results, phase>>
ctlVars ==
  <<endpoint, query, excelFiles, storageUp, fileIndex, pc, responses, trace,
    responseData>>
sheetVars == <<spreadsheet, requests, apiCalls, apiFaults>>
auxVars == <<nameVars, extractVars, ctlVars, sheetVars>>

vars == <<build, targetYear, targetMonth, calcVars, auxVars>>

None == [none |-> TRUE]

\* a spreadsheet without the destination sheet
NoSheet == [exists |-> FALSE, cells |-> <<>>]

\* the normaliser and the extractor have not been called
AuxIdle ==
  /\ storedFileName = <<>>
  /\ templateName = <<>>
  /\ cleanedNamePrefix = None
  /\ cleanedNameSuffix = None
  /\ writtenNames = None
  /\ excelLib = "xlsx"
  /\ worksheet = <<>>
  /\ range = <<>>
  /\ extractedData = None
  /\ endpoint = "calculate"
  /\ query = <<>>
  /\ excelFiles = <<>>
  /\ storageUp = TRUE
  /\ fileIndex = 0
  /\ pc = "idle"
  /\ responses = <<>>
  /\ trace = <<>>
  /\ responseData = None
  /\ spreadsheet = NoSheet
  /\ requests = <<>>
  /\ apiCalls = {}
  /\ apiFaults = FALSE

-----------------------------------------------------------------------------
(* Bounds of the model *)

MaxRows == 2        \* longest row sequence of the single-employee calculation
MaxEmployees == 2   \* most keys in employeeDataMap
MaxLinks == 1       \* most keys in downloadUrlMap
MaxRequests == 2    \* most calculate requests writing to the spreadsheet at once
MaxResults == 2     \* longest batch of results handed to the spreadsheet write

-----------------------------------------------------------------------------
(* Literals of the source *)

DAILY_AMOUNT == 10000

WORK_DAY == <<"eob", "mu", "il">>      \* "업무일"
HOLIDAY_TYPE == <<"hyu", "il">>        \* "휴일"
WORKED == <<"geun", "mu">>             \* "근무"
OFF_MARK == <<"hyu", "mu">>            \* "휴무"

-----------------------------------------------------------------------------
(* String primitives of the JavaScript runtime, on character sequences *)

\* String.prototype.includes
includes(s, pat) ==
  \E i \in 0..(Len(s) - Len(pat)) : SubSeq(s, i + 1, i + Len(pat)) = pat

\* String.prototype.indexOf: first 0-based position of pat in s, or -1
indexOf(s, pat) ==
  LET hits == {i \in 0..(Len(s) - Len(pat)) : SubSeq(s, i + 1, i + Len(pat)) = pat}
  IN IF hits = {} THEN -1 ELSE CHOOSE i \in hits : \A j \in hits : i <= j

\* String.prototype.lastIndexOf for a one-character pattern
lastIndexOf(s, ch) ==
  LET hits == {i \in 0..(Len(s) - 1) : s[i + 1] = ch}
  IN IF hits = {} THEN -1 ELSE CHOOSE i \in hits : \A j \in hits : j <= i

\* String.prototype.replace(pat, "") with a string pattern: the first
\* occurrence only, wherever it is
replaceFirstWithEmpty(s, pat) ==
  LET i == indexOf(s, pat)
  IN IF i = -1 THEN s
     ELSE SubSeq(s, 1, i) \o SubSeq(s, i + Len(pat) + 1, Len(s))

Digit(d) == <<"0", "1", "2", "3", "4", "5", "6", "7", "8", "9">>[d + 1]

RECURSIVE NatToString(_)
NatToString(n) ==
  IF n < 10 THEN <<Digit(n)>> ELSE NatToString(n \div 10) \o <<Digit(n % 10)>>

\* template-literal conversion ${number} of an integer
NumberToString(n) == IF n < 0 THEN <<"-">> \o NatToString(-n) ELSE NatToString(n)


-----------------------------------------------------------------------------
(* Name normaliser: utils/dateUtils.ts (prefix policy) and                 *)
(* utils/fileNameUtils.ts (suffix policy)                                  *)

\* substring before the last ".", or the whole string when there is none
removeFileExtension(fileName) ==
  LET lastDotIndex == lastIndexOf(fileName, ".")
  IN IF lastDotIndex = -1 THEN fileName ELSE SubSeq(fileName, 1, lastDotIndex)

\* "ACG_식대 정리_Template_"
TemplateHead ==
  <<"A", "C", "G", "_", "sik", "dae", " ", "jeong", "ri", "_",
    "T", "e", "m", "p", "l", "a", "t", "e", "_">>

\* `ACG_식대 정리_Template_${sheetYear}년 ${period}_`
generateACGTemplatePrefix(sheetYear, sheetMonth) ==
  LET period == IF sheetMonth <= 6 THEN <<"sang", "ban", "gi">>
                                   ELSE <<"ha", "ban", "gi">>
  IN TemplateHead \o NumberToString(sheetYear) \o <<"nyeon", " ">> \o period \o <<"_">>

\* "ACG_식대 정리_Template_25년 하반기_", the hard-coded fallback
LegacyPrefix ==
  TemplateHead \o <<"2", "5", "nyeon", " ", "ha", "ban", "gi", "_">>

\* dateUtils.ts: strip the extension, then remove the first occurrence of the
\* year/half-year prefix; a zero year or month is falsy and selects the fallback
cleanACGTemplateFileName(fileName, sheetYear, sheetMonth) ==
  LET cleanedName == removeFileExtension(fileName)
  IN IF sheetYear # 0 /\ sheetMonth # 0
       THEN replaceFirstWithEmpty(cleanedName,
                                  generateACGTemplatePrefix(sheetYear, sheetMonth))
       ELSE replaceFirstWithEmpty(cleanedName, LegacyPrefix)

\* cleanedName.split("_").slice(1).join("_"): the part after the first "_"
splitAfterFirst(s) == SubSeq(s, indexOf(s, <<"_">>) + 2, Len(s))

\* cleanedName.split("_").pop(): the part after the last "_"
splitPop(s) == SubSeq(s, lastIndexOf(s, "_") + 2, Len(s))

\* fileNameUtils.ts: strip the extension, then keep what follows the last "_"
cleanACGTemplateFileNameSuffix(fileName) ==
  LET cleanedName == removeFileExtension(fileName)
  IN IF cleanedName # <<>>
       THEN (IF splitPop(cleanedName) # <<>> THEN splitPop(cleanedName)
                                             ELSE cleanedName)
       ELSE fileName

\* The name calculateEmployee puts in its result.  The repository holds three
\* states of this line: name: employeeName (no normalisation), and
\* cleanACGTemplateFileName(employeeName, targetYear, targetMonth) resolved
\* against either normaliser (the one-parameter one ignores year and month).
cleanedNameOf(name, year, month) ==
  CASE build = "raw" -> name
    [] build = "prefix" -> cleanACGTemplateFileName(name, year, month)
    [] build = "suffix" -> cleanACGTemplateFileNameSuffix(name)

-----------------------------------------------------------------------------
(* String.prototype.localeCompare (ICU root collation), restricted to the  *)
(* characters of the model                                                 *)

\* canonical composition: U+1100 U+1175 -> 기, 기 U+11B7 -> 김
RECURSIVE NFC(_)
NFC(s) ==
  IF Len(s) >= 2 /\ s[1] = "j_g" /\ s[2] = "j_i"
    THEN NFC(<<"gi">> \o SubSeq(s, 3, Len(s)))
  ELSE IF Len(s) >= 2 /\ s[1] = "gi" /\ s[2] = "j_m"
    THEN <<"gim">> \o NFC(SubSeq(s, 3, Len(s)))
  ELSE IF s = <<>> THEN <<>>
  ELSE <<s[1]>> \o NFC(Tail(s))

\* primary order: space < punctuation < digits < Latin < Hangul
PrimaryOrder ==
  <<" ", "_", "-", ".", "0", "1", "2", "3", "4", "5", "6", "7", "8", "9",
    "a", "c", "e", "g", "l", "m", "p", "t",
    "j_g", "geun", "gi", "gim", "nyeon", "dae", "ri", "j_m", "ban", "sang", "sik",
    "j_i", "i", "jeong", "ha">>

UpperCase == {"A", "C", "G", "T"}

ToLower(ch) ==
  CASE ch = "A" -> "a" [] ch = "C" -> "c" [] ch = "G" -> "g" [] ch = "T" -> "t"
    [] OTHER -> ch

\* the primary weight of a character is its place in PrimaryOrder
PrimaryWeight ==
  [c \in {PrimaryOrder[r] : r \in 1..Len(PrimaryOrder)} |->
     CHOOSE r \in 1..Len(PrimaryOrder) : PrimaryOrder[r] = c]

Primary(ch) == PrimaryWeight[ToLower(ch)]

\* tertiary weight: lower case before upper case
Tertiary(ch) == IF ch \in UpperCase THEN 1 ELSE 0

\* three-way lexicographic comparison of two sequences of weights
LexCompare(x, y) ==
  LET diff == {i \in 1..Len(x) : i <= Len(y) /\ x[i] # y[i]}
  IN IF diff # {}
       THEN LET i == CHOOSE k \in diff : \A j \in diff : k <= j
            IN IF x[i] < y[i] THEN -1 ELSE 1
     ELSE IF Len(x) < Len(y) THEN -1
     ELSE IF Len(x) > Len(y) THEN 1
     ELSE 0

localeCompare(a, b) ==
  LET ka == NFC(a)
      kb == NFC(b)
      p == LexCompare([i \in 1..Len(ka) |-> Primary(ka[i])],
                      [i \in 1..Len(kb) |-> Primary(kb[i])])
  IN IF p # 0 THEN p
     ELSE LexCompare([i \in 1..Len(ka) |-> Tertiary(ka[i])],
                     [i \in 1..Len(kb) |-> Tertiary(kb[i])])

-----------------------------------------------------------------------------
(* CalculationService                                                      *)

\* calculateWorkDays counting only the work days that were attended
calculateWorkDaysAttended(rows, month) ==
  Len(SelectSeq(rows, LAMBDA row : /\ row.month = month
                                   /\ row.workType = WORK_DAY
                                   /\ row.attendance = WORKED))

\* data.filter((row) => row.month === targetMonth && row.workType === "업무일").length
calculateWorkDays(rows, month) ==
  Len(SelectSeq(rows, LAMBDA row : row.month = month /\ row.workType = WORK_DAY))

\* calculateWeekendWork without the work-type condition
calculateWeekendWorkAnyType(rows, month) ==
  Len(SelectSeq(rows, LAMBDA row : row.month = month /\ row.attendance = WORKED))

\* data.filter((row) => row.month === targetMonth && row.workType === "휴일"
\*                      && row.attendance === "근무").length
calculateWeekendWork(rows, month) ==
  Len(SelectSeq(rows, LAMBDA row : /\ row.month = month
                                   /\ row.workType = HOLIDAY_TYPE
                                   /\ row.attendance = WORKED))

\* calculateHolidays comparing the attendance with === instead of includes
calculateHolidaysExact(rows, month) ==
  Len(SelectSeq(rows, LAMBDA row : row.month = month /\ row.attendance = OFF_MARK))

\* calculateHolidays without the month condition
calculateHolidaysAnyMonth(rows, month) ==
  Len(SelectSeq(rows, LAMBDA row : includes(row.attendance, OFF_MARK)))

\* data.filter((row) => row.month === targetMonth
\*                      && row.attendance.includes("휴무")).length
calculateHolidays(rows, month) ==
  Len(SelectSeq(rows, LAMBDA row : row.month = month /\ includes(row.attendance, OFF_MARK)))

\* monthData.reduce((sum, row) => sum + row.amount, 0), left to right
RECURSIVE reduceAmount(_, _, _)
reduceAmount(monthData, i, sum) ==
  IF i > Len(monthData) THEN sum
  ELSE reduceAmount(monthData, i + 1, sum + monthData[i].amount)

\* calculateUsedAmount summing only the rows of a work-type category
calculateUsedAmountCategorised(rows, month) ==
  LET monthData == SelectSeq(rows, LAMBDA row : /\ row.month = month
                                                /\ row.workType \in {WORK_DAY, HOLIDAY_TYPE})
  IN reduceAmount(monthData, 1, 0)

calculateUsedAmount(rows, month) ==
  LET monthData == SelectSeq(rows, LAMBDA row : row.month = month)
  IN reduceAmount(monthData, 1, 0)

\* calculateTotalAmount clamped at zero
calculateTotalAmountClamped(workDays, weekendWork, holidays) ==
  LET t == (workDays + weekendWork - holidays) * DAILY_AMOUNT
  IN IF t < 0 THEN 0 ELSE t

calculateTotalAmount(workDays, weekendWork, holidays) ==
  workDays * DAILY_AMOUNT + weekendWork * DAILY_AMOUNT - holidays * DAILY_AMOUNT

\* calculateEmployee with the balance clamped at zero
calculateEmployeeClampedBalance(rows, name, year, month, downloadUrl) ==
  LET workDay == calculateWorkDays(rows, month)
      weekendWork == calculateWeekendWork(rows, month)
      holiday == calculateHolidays(rows, month)
      usedAmount == calculateUsedAmount(rows, month)
      total == calculateTotalAmount(workDay, weekendWork, holiday)
      balance == IF total - usedAmount < 0 THEN 0 ELSE total - usedAmount
  IN [name |-> cleanedNameOf(name, year, month),
      workDay |-> workDay,
      holiday |-> holiday,
      weekendWork |-> weekendWork,
      total |-> total,
      balance |-> balance,
      usedAmount |-> usedAmount,
      downloadUrl |-> downloadUrl]

calculateEmployee(rows, name, year, month, downloadUrl) ==
  LET workDay == calculateWorkDays(rows, month)
      weekendWork == calculateWeekendWork(rows, month)
      holiday == calculateHolidays(rows, month)
      usedAmount == calculateUsedAmount(rows, month)
      total == calculateTotalAmount(workDay, weekendWork, holiday)
      balance == total - usedAmount
  IN [name |-> cleanedNameOf(name, year, month),
      workDay |-> workDay,
      holiday |-> holiday,
      weekendWork |-> weekendWork,
      total |-> total,
      balance |-> balance,
      usedAmount |-> usedAmount,
      downloadUrl |-> downloadUrl]

-----------------------------------------------------------------------------
(* Map and Array primitives used by calculateAllEmployees *)

\* Map.prototype.set on an insertion-ordered map, kept as a sequence of
\* [key, value] entries: an existing key keeps its place and gets the new value
MapSet(m, k, v) ==
  IF \E i \in 1..Len(m) : m[i].key = k
    THEN [i \in 1..Len(m) |-> IF m[i].key = k THEN [key |-> k, value |-> v] ELSE m[i]]
    ELSE Append(m, [key |-> k, value |-> v])

MapKeys(m) == {m[i].key : i \in 1..Len(m)}

\* downloadUrlMap.get(employeeName) || "": only get is ever called on this
\* map, so it is kept as a function from its keys; a missing key (undefined)
\* and an empty link are both falsy
getOrEmpty(m, k) == IF k \in DOMAIN m /\ m[k] # <<>> THEN m[k] ELSE <<>>

\* an unstable insertion: the element goes before the earlier ones it ties with
insertByNameBeforeEqual(acc, x) ==
  LET pos == Cardinality({j \in 1..Len(acc) : localeCompare(acc[j].name, x.name) < 0})
  IN SubSeq(acc, 1, pos) \o <<x>> \o SubSeq(acc, pos + 1, Len(acc))

\* Array.prototype.sort((a, b) => a.name.localeCompare(b.name)) is a stable
\* sort (binary insertion for short arrays): each element is placed after
\* every earlier element that does not compare greater
insertByName(acc, x) ==
  LET pos == Cardinality({j \in 1..Len(acc) : localeCompare(acc[j].name, x.name) <= 0})
  IN SubSeq(acc, 1, pos) \o <<x>> \o SubSeq(acc, pos + 1, Len(acc))

RECURSIVE sortByName(_, _, _)
sortByName(rs, i, acc) ==
  IF i > Len(rs) THEN acc ELSE sortByName(rs, i + 1, insertByName(acc, rs[i]))

\* pushedResults leaving out the employees whose row sequence is empty
pushedResultsNonEmpty(dataMap, urlMap, year, month) ==
  LET kept == SelectSeq(dataMap, LAMBDA e : e.value # <<>>)
  IN [i \in 1..Len(kept) |->
        calculateEmployee(kept[i].value, kept[i].key, year, month,
                          getOrEmpty(urlMap, kept[i].key))]

\* employeeDataMap.forEach(...) pushing one result per entry, in insertion order
pushedResults(dataMap, urlMap, year, month) ==
  [i \in 1..Len(dataMap) |->
     calculateEmployee(dataMap[i].value, dataMap[i].key, year, month,
                       getOrEmpty(urlMap, dataMap[i].key))]

\* calculateAllEmployees returning the results without sorting them
calculateAllEmployeesUnsorted(dataMap, urlMap, year, month) ==
  pushedResults(dataMap, urlMap, year, month)

calculateAllEmployees(dataMap, urlMap, year, month) ==
  sortByName(pushedResults(dataMap, urlMap, year, month), 1, <<>>)

-----------------------------------------------------------------------------
(* Inputs of the model *)

Builds == {"raw", "prefix", "suffix"}
Years == {2025}
Months == {3, 7}

WorkTypes == {WORK_DAY, HOLIDAY_TYPE, <<>>}
\* "근무", "휴무", "오전휴무", ""
Attendances == {WORKED, OFF_MARK, <<"o", "jeon", "hyu", "mu">>, <<>>}
Amounts == {0, 4500}

\* codes that contain a counted code without being equal to it:
\* "휴일근무" and "업무일 " as work type, "재택근무" as attendance
NearWorkTypes == {<<"hyu", "il", "geun", "mu">>, <<"eob", "mu", "il", " ">>}
NearAttendance == <<"jae", "taek", "geun", "mu">>

\* rows of the requested year, rows with the near codes, and a few rows of
\* the year before
RowPool ==
  [year : {2025}, month : Months, workType : WorkTypes,
   attendance : Attendances, amount : Amounts]
  \cup [year : {2025}, month : Months, workType : NearWorkTypes,
        attendance : {WORKED}, amount : {4500}]
  \cup [year : {2025}, month : Months, workType : {HOLIDAY_TYPE},
        attendance : {NearAttendance}, amount : {4500}]
  \cup [year : {2024}, month : Months, workType : {WORK_DAY},
        attendance : {WORKED}, amount : {4500}]

\* "김", "이", NFD "김", "ACG_식대 정리_Template_2025년 상반기_이"
NameGim == <<"gim">>
NameI == <<"i">>
NameGimNFD == <<"j_g", "j_i", "j_m">>
NameTemplateI == generateACGTemplatePrefix(2025, 3) \o NameI

KeyPool == {NameGim, NameI, NameGimNFD, NameTemplateI}

\* the link to the file of key k, a string the calculation never looks into;
\* the empty string is <<>>
LinkOf(k) == <<"https", ":">> \o k

-----------------------------------------------------------------------------
(* Calculation of one employee *)

InitEmployee ==
  /\ build \in Builds
  /\ targetYear \in Years
  /\ targetMonth \in Months
  /\ data = <<>>
  /\ employeeName = NameTemplateI
  /\ emp = None
  /\ employeeDataMap = <<>>
  /\ downloadUrlMap = <<>>
  /\ results = <<>>
  /\ phase = "load"
  /\ AuxIdle

\* one more extracted row in the employee's data
AppendRow(row) ==
  /\ emp = None
  /\ Len(data) < MaxRows
  /\ data' = Append(data, row)
  /\ UNCHANGED <<build, targetYear, targetMonth, employeeName, emp,
                 employeeDataMap, downloadUrlMap, results, phase>>
  /\ UNCHANGED auxVars

CalculateEmployee ==
  /\ emp = None
  /\ emp' = calculateEmployee(data, employeeName, targetYear, targetMonth,
                              LinkOf(employeeName))
  /\ UNCHANGED <<build, targetYear, targetMonth, data, employeeName,
                 employeeDataMap, downloadUrlMap, results, phase>>
  /\ UNCHANGED auxVars

NextEmployee ==
  \/ \E row \in RowPool : AppendRow(row)
  \/ CalculateEmployee

SpecEmployee == InitEmployee /\ [][NextEmployee]_vars

-----------------------------------------------------------------------------
(* Calculation of all employees *)

Row(m, wt, att, amt) ==
  [year |-> 2025, month |-> m, workType |-> wt, attendance |-> att, amount |-> amt]

\* row sequences of the files: none, rows of March only, rows of July only
RowsMarch == <<Row(3, WORK_DAY, OFF_MARK, 4500), Row(3, HOLIDAY_TYPE, WORKED, 4500)>>
RowsJuly == <<Row(7, WORK_DAY, WORKED, 4500), Row(7, <<>>, <<"o", "jeon", "hyu", "mu">>, 0)>>
RowSeqPool == {<<>>, RowsMarch, RowsJuly}

Init ==
  /\ build \in Builds
  /\ targetYear \in Years
  /\ targetMonth \in Months
  /\ data = <<>>
  /\ employeeName = NameTemplateI
  /\ emp = None
  /\ employeeDataMap = <<>>
  /\ downloadUrlMap = <<>>
  /\ results = <<>>
  /\ phase = "load"
  /\ AuxIdle

\* employeeDataMap.set(employeeName, excelData)
SetEmployeeData(k, rows) ==
  /\ phase = "load"
  /\ k \in MapKeys(employeeDataMap) \/ Len(employeeDataMap) < MaxEmployees
  /\ employeeDataMap' = MapSet(employeeDataMap, k, rows)
  /\ UNCHANGED <<build, targetYear, targetMonth, data, employeeName, emp,
                 downloadUrlMap, results, phase>>
  /\ UNCHANGED auxVars

\* downloadUrlMap.set(employeeName, downloadUrl)
SetDownloadUrl(k, url) ==
  /\ phase = "load"
  /\ k \in DOMAIN downloadUrlMap \/ Cardinality(DOMAIN downloadUrlMap) < MaxLinks
  /\ downloadUrlMap' = [x \in DOMAIN downloadUrlMap \cup {k} |->
                          IF x = k THEN url ELSE downloadUrlMap[x]]
  /\ UNCHANGED <<build, targetYear, targetMonth, data, employeeName, emp,
                 employeeDataMap, results, phase>>
  /\ UNCHANGED auxVars

CalculateAll ==
  /\ phase = "load"
  /\ results' = calculateAllEmployees(employeeDataMap, downloadUrlMap,
                                      targetYear, targetMonth)
  /\ phase' = "done"
  /\ UNCHANGED <<build, targetYear, targetMonth, data, employeeName, emp,
                 employeeDataMap, downloadUrlMap>>
  /\ UNCHANGED auxVars

Next ==
  \/ \E k \in KeyPool, rows \in RowSeqPool : SetEmployeeData(k, rows)
  \/ \E k \in KeyPool : \E url \in {<<>>, LinkOf(k)} : SetDownloadUrl(k, url)
  \/ CalculateAll

Spec == Init /\ [][Next]_vars

-----------------------------------------------------------------------------
(* Reference definitions for the properties of one employee's calculation *)

\* indexes of the rows of data in the target month
MatchingRows == {i \in 1..Len(data) : data[i].month = targetMonth}

RECURSIVE SumAmount(_)
SumAmount(S) ==
  IF S = {} THEN 0
  ELSE LET i == CHOOSE x \in S : TRUE IN data[i].amount + SumAmount(S \ {i})

\* 휴 immediately followed by 무 somewhere in the attendance text
ContainsOffMark(att) ==
  \E j \in 1..(Len(att) - 1) : att[j] = "hyu" /\ att[j + 1] = "mu"

Uncategorised(row) ==
  /\ row.workType \notin {WORK_DAY, HOLIDAY_TYPE}
  /\ ~ContainsOffMark(row.attendance)

\* C1: calculateUsedAmount returns the sum of amount over exactly the rows
\* of the target month, whatever their category, and 0 when no row matches.
C1_UsedAmountIsMonthSum ==
  emp # None =>
    /\ emp.usedAmount = SumAmount(MatchingRows)
    /\ (MatchingRows = {} => emp.usedAmount = 0)

\* a target-month row outside every category is summed, a row of another
\* month with an amount is not
C1_Witness ==
  /\ emp # None
  /\ emp.usedAmount = 4500
  /\ \E i \in MatchingRows : Uncategorised(data[i]) /\ data[i].amount = 4500
  /\ \E i \in 1..Len(data) : i \notin MatchingRows /\ data[i].amount = 4500

\* C2: total is (workDay + weekendWork - holiday) * 10000, and it is negative
\* whenever holiday exceeds workDay + weekendWork.
C2_TotalFormula ==
  emp # None =>
    /\ emp.total = (emp.workDay + emp.weekendWork - emp.holiday) * 10000
    /\ (emp.holiday > emp.workDay + emp.weekendWork => emp.total < 0)

C2_Witness ==
  /\ emp # None
  /\ emp.holiday > emp.workDay + emp.weekendWork
  /\ emp.total = -20000

\* C3: balance is total minus usedAmount exactly, negative when usedAmount
\* exceeds total.
C3_BalanceExact ==
  emp # None =>
    /\ emp.balance = emp.total - emp.usedAmount
    /\ (emp.usedAmount > emp.total => emp.balance < 0)

\* the spend exceeds a non-negative entitlement
C3_Witness ==
  /\ emp # None
  /\ emp.total >= 0
  /\ emp.usedAmount > emp.total
  /\ emp.balance < 0

\* C4: calculateWorkDays is the number of target-month rows whose workType
\* is exactly 업무일, whatever their attendance.
C4_WorkDayCount ==
  emp # None =>
    emp.workDay = Cardinality({i \in MatchingRows : data[i].workType = WORK_DAY})

\* a 업무일 row that was not attended is counted
C4_Witness ==
  /\ emp # None
  /\ emp.workDay = 1
  /\ \E i \in MatchingRows : data[i].workType = WORK_DAY /\ data[i].attendance = OFF_MARK
  /\ \E i \in 1..Len(data) : i \notin MatchingRows /\ data[i].workType = WORK_DAY

\* C5: calculateWeekendWork is the number of target-month rows of workType
\* 휴일 and attendance 근무, and no row counts both as work day and as
\* weekend work.
C5_WeekendWorkCount ==
  emp # None =>
    /\ emp.weekendWork =
         Cardinality({i \in MatchingRows : /\ data[i].workType = HOLIDAY_TYPE
                                           /\ data[i].attendance = WORKED})
    /\ \A i \in 1..Len(data) :
         calculateWorkDays(<<data[i]>>, targetMonth)
           + calculateWeekendWork(<<data[i]>>, targetMonth) <= 1

\* a 휴일 row with 근무 is counted, a 휴일 row with 재택근무 is not
C5_Witness ==
  /\ emp # None
  /\ emp.weekendWork = 1
  /\ \E i \in MatchingRows : /\ data[i].workType = HOLIDAY_TYPE
                             /\ data[i].attendance = NearAttendance

\* a 업무일 row with 근무 next to a counted 휴일 row
C5_WitnessBothKinds ==
  /\ emp # None
  /\ emp.weekendWork = 1
  /\ emp.workDay = 1
  /\ \E i \in MatchingRows : data[i].workType = WORK_DAY /\ data[i].attendance = WORKED

\* C6: calculateHolidays is the number of target-month rows whose attendance
\* contains 휴무 at any position, whatever their workType.
C6_HolidayCount ==
  emp # None =>
    emp.holiday = Cardinality({i \in MatchingRows : ContainsOffMark(data[i].attendance)})

\* 오전휴무 on a 업무일 row counts as a holiday and as a work day
C6_Witness ==
  /\ emp # None
  /\ emp.holiday = 2
  /\ emp.workDay >= 1
  /\ \E i \in MatchingRows : /\ data[i].workType = WORK_DAY
                             /\ data[i].attendance = <<"o", "jeon", "hyu", "mu">>

-----------------------------------------------------------------------------
(* Reference definitions for the properties of calculateAllEmployees *)

NumEntries == Len(employeeDataMap)

KeyAt(i) == employeeDataMap[i].key
RowsAt(i) == employeeDataMap[i].value

\* the display name of the i-th inserted key
NameAt(i) == cleanedNameOf(KeyAt(i), targetYear, targetMonth)

\* the link stored for the i-th inserted key, the empty string when there is none
LinkAt(i) == IF KeyAt(i) \in DOMAIN downloadUrlMap THEN downloadUrlMap[KeyAt(i)] ELSE <<>>

HasTargetRow(i) == \E j \in 1..Len(RowsAt(i)) : RowsAt(i)[j].month = targetMonth

\* the one-to-one assignments of the inserted keys to positions of the output
Placements ==
  {p \in [1..NumEntries -> 1..NumEntries] :
     \A i, j \in 1..NumEntries : p[i] = p[j] => i = j}

\* position p[i] of the output holds the result of the i-th inserted key
IsResultOf(p) ==
  \A i \in 1..NumEntries :
    results[p[i]] = calculateEmployee(RowsAt(i), KeyAt(i), targetYear, targetMonth,
                                      LinkAt(i))

\* the map with its entries inserted in the order q
Reinserted(q) == [i \in 1..NumEntries |-> employeeDataMap[q[i]]]

\* C7: calculateAllEmployees returns exactly one result for each key of the
\* data map, keys with no rows included, and a key with no entry in the link
\* map gets the empty string as downloadUrl.
C7_OneResultPerKey ==
  phase = "done" =>
    /\ Len(results) = NumEntries
    /\ \E p \in Placements :
         /\ IsResultOf(p)
         /\ \A i \in 1..NumEntries :
              KeyAt(i) \notin DOMAIN downloadUrlMap => results[p[i]].downloadUrl = <<>>

\* two keys, one without rows and without link, the other with a link
C7_Witness ==
  /\ phase = "done"
  /\ Len(results) = 2
  /\ \E i \in 1..NumEntries : RowsAt(i) = <<>> /\ KeyAt(i) \notin DOMAIN downloadUrlMap
  /\ \E j \in 1..Len(results) : results[j].downloadUrl # <<>>
  /\ \E j \in 1..Len(results) : results[j].downloadUrl = <<>>

C8_WitnessNotRawKey ==
  /\ phase = "done"
  /\ NumEntries = 2
  /\ localeCompare(KeyAt(1), KeyAt(2)) < 0
  /\ localeCompare(NameAt(1), NameAt(2)) > 0
  /\ results[1].name = NameAt(2)

\* C9 as stated: the output is the same sequence whatever order the entries
\* were inserted in.
C9_OrderIndependent ==
  phase = "done" =>
    \A q \in Placements :
      calculateAllEmployees(Reinserted(q), downloadUrlMap, targetYear, targetMonth)
        = results

NoEqualNames ==
  \A a, b \in 1..Len(results) :
    a # b => localeCompare(results[a].name, results[b].name) # 0

\* C9 amended: the output is the same sequence whatever order the entries
\* were inserted in, provided no two results have names that compare equal.
C9_OrderIndependentWithoutTies ==
  (phase = "done" /\ NoEqualNames) =>
    \A q \in Placements :
      calculateAllEmployees(Reinserted(q), downloadUrlMap, targetYear, targetMonth)
        = results

\* two keys with different names, inserted in descending order of name
C9_Witness ==
  /\ phase = "done"
  /\ NumEntries = 2
  /\ NoEqualNames
  /\ localeCompare(NameAt(1), NameAt(2)) > 0
  /\ results[1].name = NameAt(2)
  /\ results[2].name = NameAt(1)

\* C10: an employee with no row in the target month (or no row at all) gets
\* workDay, weekendWork, holiday, total, usedAmount and balance all 0 and
\* still appears in the output.
C10_NoTargetRowsAllZero ==
  phase = "done" =>
    /\ Len(results) = NumEntries
    /\ \E p \in Placements :
         \A i \in 1..NumEntries :
           /\ results[p[i]].name = NameAt(i)
           /\ ~HasTargetRow(i) =>
                /\ results[p[i]].workDay = 0
                /\ results[p[i]].weekendWork = 0
                /\ results[p[i]].holiday = 0
                /\ results[p[i]].total = 0
                /\ results[p[i]].usedAmount = 0
                /\ results[p[i]].balance = 0

\* one employee without rows, one with rows of another month only
C10_Witness ==
  /\ phase = "done"
  /\ NumEntries = 2
  /\ Len(results) = 2
  /\ \E i \in 1..NumEntries : RowsAt(i) = <<>>
  /\ \E i \in 1..NumEntries : RowsAt(i) # <<>> /\ ~HasTargetRow(i)
  /\ \A j \in 1..2 : results[j].total = 0 /\ results[j].usedAmount = 0

-----------------------------------------------------------------------------
(* The name normaliser applied to stored file names *)

MaxNameLen == 3     \* longest name a file name is built from

NameAlphabet == {"i", "_", "."}
NamePool == UNION {[1..n -> NameAlphabet] : n \in 0..MaxNameLen}
NameYears == {0, 25, 2025}
NameMonths == 1..12

Extension == <<".", "x", "l", "s", "x">>

\* "ACG_식대 정리_Template_<year>년 <half>_" + name + ".xlsx", the name the
\* template gives an employee's file
TemplateFileName(year, month, name) ==
  TemplateHead \o NumberToString(year) \o <<"nyeon", " ">>
    \o (IF month \in 1..6 THEN <<"sang", "ban", "gi">> ELSE <<"ha", "ban", "gi">>)
    \o <<"_">> \o name \o Extension

Returned(v) == [value |-> v]

CalcIdle ==
  /\ data = <<>>
  /\ employeeName = <<>>
  /\ emp = None
  /\ employeeDataMap = <<>>
  /\ downloadUrlMap = <<>>
  /\ results = <<>>
  /\ phase = "load"

ExtractIdle ==
  /\ excelLib = "xlsx"
  /\ worksheet = <<>>
  /\ range = <<>>
  /\ extractedData = None

\* no request is being served
CtlIdle ==
  /\ endpoint = "calculate"
  /\ query = <<>>
  /\ excelFiles = <<>>
  /\ storageUp = TRUE
  /\ fileIndex = 0
  /\ pc = "idle"
  /\ responses = <<>>
  /\ trace = <<>>
  /\ responseData = None

\* updateGoogleSheetWithAutoCreate is not running
SheetsIdle ==
  /\ spreadsheet = NoSheet
  /\ requests = <<>>
  /\ apiCalls = {}
  /\ apiFaults = FALSE

InitName ==
  /\ build = "prefix"
  /\ targetYear \in NameYears
  /\ targetMonth \in NameMonths
  /\ CalcIdle
  /\ ExtractIdle
  /\ CtlIdle
  /\ SheetsIdle
  /\ templateName \in NamePool
  /\ storedFileName \in {templateName, templateName \o Extension,
                         TemplateFileName(targetYear, targetMonth, templateName)}
  /\ cleanedNamePrefix = None
  /\ cleanedNameSuffix = None
  /\ writtenNames = None

\* dateUtils.ts cleanACGTemplateFileName(fileName, sheetYear, sheetMonth)
CleanByPrefix ==
  /\ cleanedNamePrefix = None
  /\ cleanedNamePrefix' =
       Returned(cleanACGTemplateFileName(storedFileName, targetYear, targetMonth))
  /\ UNCHANGED <<build, targetYear, targetMonth, calcVars, extractVars, ctlVars,
                 sheetVars, storedFileName, templateName, cleanedNameSuffix,
                 writtenNames>>

\* fileNameUtils.ts cleanACGTemplateFileName(fileName)
CleanBySuffix ==
  /\ cleanedNameSuffix = None
  /\ cleanedNameSuffix' = Returned(cleanACGTemplateFileNameSuffix(storedFileName))
  /\ UNCHANGED <<build, targetYear, targetMonth, calcVars, extractVars, ctlVars,
                 sheetVars, storedFileName, templateName, cleanedNamePrefix,
                 writtenNames>>

\* updateGoogleSheet: cleanACGTemplateFileName(result.name, sheetYear,
\* sheetMonth) on the name each normaliser put in the EmployeeResult
WriteNameCell ==
  /\ cleanedNamePrefix # None
  /\ cleanedNameSuffix # None
  /\ writtenNames = None
  /\ writtenNames' =
       [prefix |-> cleanACGTemplateFileName(cleanedNamePrefix.value, targetYear,
                                            targetMonth),
        suffix |-> cleanACGTemplateFileNameSuffix(cleanedNameSuffix.value)]
  /\ UNCHANGED <<build, targetYear, targetMonth, calcVars, extractVars, ctlVars,
                 sheetVars, storedFileName, templateName, cleanedNamePrefix,
                 cleanedNameSuffix>>

NextName ==
  \/ CleanByPrefix
  \/ CleanBySuffix
  \/ WriteNameCell

SpecName == InitName /\ [][NextName]_vars

-----------------------------------------------------------------------------
(* Cell values of the spreadsheet libraries and the JavaScript conversions *)
(* extractData applies to them                                             *)

\* A cell value: t is the JavaScript type, s the text of a string, n the
\* value of a number, o the <<text, result, formula>> properties of an object
StringCell(str) == [t |-> "string", s |-> str, n |-> 0, o |-> <<>>]
NumberCell(num) == [t |-> "number", s |-> <<>>, n |-> num, o |-> <<>>]
NullCell == [t |-> "null", s |-> <<>>, n |-> 0, o |-> <<>>]
UndefinedCell == [t |-> "undefined", s |-> <<>>, n |-> 0, o |-> <<>>]
ObjectCell(text, result, formula) ==
  [t |-> "object", s |-> <<>>, n |-> 0, o |-> <<text, result, formula>>]

\* ToBoolean
Truthy(v) ==
  CASE v.t = "string" -> v.s # <<>>
    [] v.t = "number" -> v.n # 0
    [] v.t = "object" -> TRUE
    [] OTHER -> FALSE

ObjectObject ==
  <<"[", "o", "b", "j", "e", "c", "t", " ", "O", "b", "j", "e", "c", "t", "]">>

\* String(value)
String(v) ==
  CASE v.t = "string" -> v.s
    [] v.t = "number" -> NumberToString(v.n)
    [] v.t = "null" -> <<"n", "u", "l", "l">>
    [] v.t = "undefined" -> <<"u", "n", "d", "e", "f", "i", "n", "e", "d">>
    [] v.t = "object" -> ObjectObject

\* value || fallback
OrElse(v, fallback) == IF Truthy(v) THEN v ELSE fallback

Digits == {"0", "1", "2", "3", "4", "5", "6", "7", "8", "9"}
DigitValue(c) == CHOOSE d \in 0..9 : Digit(d) = c

\* end of the longest run of characters of class that starts at position i
\* (i - 1 when s[i] is not of the class)
RunEnd(s, i, class) ==
  IF i > Len(s) THEN i - 1
  ELSE CHOOSE j \in (i - 1)..Len(s) :
         /\ \A k \in i..j : s[k] \in class
         /\ j < Len(s) => s[j + 1] \notin class

RECURSIVE DigitsToNat(_)
DigitsToNat(ds) ==
  IF ds = <<>> THEN 0
  ELSE 10 * DigitsToNat(SubSeq(ds, 1, Len(ds) - 1)) + DigitValue(ds[Len(ds)])

NaN == [nan |-> TRUE, n |-> 0]
Number(k) == [nan |-> FALSE, n |-> k]
isNaN(x) == x.nan

\* parseInt(str, 10): leading white space, an optional sign, then the longest
\* run of decimal digits; NaN when there is no digit
parseInt(str) ==
  LET ws == RunEnd(str, 1, {" "})
      signed == ws < Len(str) /\ str[ws + 1] \in {"+", "-"}
      first == IF signed THEN ws + 2 ELSE ws + 1
      last == RunEnd(str, first, Digits)
      magnitude == DigitsToNat(SubSeq(str, first, last))
  IN IF last < first THEN NaN
     ELSE IF signed /\ str[ws + 1] = "-" THEN Number(-magnitude)
     ELSE Number(magnitude)

\* parseFloat(str) on texts without fractional digits or exponent: the
\* integer part is read as by parseInt and a following "." ends the number
parseFloat(str) == parseInt(str)

-----------------------------------------------------------------------------
(* ExcelService.extractData, in its xlsx and its exceljs version *)

Letters ==
  <<"A", "B", "C", "D", "E", "F", "G", "H", "I", "J", "K", "L", "M",
    "N", "O", "P", "Q", "R", "S", "T", "U", "V", "W", "X", "Y", "Z">>
UpperLetters == {Letters[i] : i \in 1..26}

\* column.charCodeAt(i) - 64
LetterNumber(c) == CHOOSE i \in 1..26 : Letters[i] = c

RECURSIVE columnToNumber(_)
columnToNumber(column) ==
  IF column = <<>> THEN 0
  ELSE columnToNumber(SubSeq(column, 1, Len(column) - 1)) * 26
         + LetterNumber(column[Len(column)])

\* the groups of /([A-Z]+)(\d+):([A-Z]+)(\d+)/ matched at position i of s, as
\* the positions where each group ends; every quantifier is greedy and takes
\* its whole run
GroupEnds(s, i) ==
  LET a == RunEnd(s, i, UpperLetters)
      b == RunEnd(s, a + 1, Digits)
      d == RunEnd(s, b + 2, UpperLetters)
      e == RunEnd(s, d + 1, Digits)
  IN <<a, b, d, e>>

MatchesAt(s, i) ==
  LET g == GroupEnds(s, i)
  IN /\ g[1] >= i
     /\ g[2] >= g[1] + 1
     /\ g[2] < Len(s) /\ s[g[2] + 1] = ":"
     /\ g[3] >= g[2] + 2
     /\ g[4] >= g[3] + 1

\* range.match(...): the leftmost match, or None
rangeMatch(s) ==
  LET starts == {i \in 1..Len(s) : MatchesAt(s, i)}
  IN IF starts = {} THEN None
     ELSE LET i == CHOOSE x \in starts : \A y \in starts : x <= y
              g == GroupEnds(s, i)
          IN [startCol |-> SubSeq(s, i, g[1]),
              startRow |-> SubSeq(s, g[1] + 1, g[2]),
              endCol |-> SubSeq(s, g[2] + 2, g[3]),
              endRow |-> SubSeq(s, g[3] + 1, g[4])]

\* A row of the sheet: empty when it holds no cell at all, else its cells by
\* column number (a column outside the domain holds no cell)
EmptySheetRow == [empty |-> TRUE, cells |-> <<>>]
SheetRow(y, m, wt, att, amt) ==
  [empty |-> FALSE, cells |-> (2 :> y @@ 3 :> m @@ 6 :> wt @@ 8 :> att @@ 10 :> amt)]

\* xlsx: row[k] of sheet_to_json with defval "" ; exceljs: row.getCell(col).value
cellValue(lib, row, col) ==
  IF col \in DOMAIN row.cells /\ row.cells[col].t # "null" THEN row.cells[col]
  ELSE IF lib = "xlsx" THEN StringCell(<<>>) ELSE NullCell

\* the five cells extractData reads: offsets 0, 1, 4, 6, 8 from the start column
readCells(lib, row, startCol) ==
  [yearValue |-> cellValue(lib, row, startCol),
   monthValue |-> cellValue(lib, row, startCol + 1),
   workTypeValue |-> cellValue(lib, row, startCol + 4),
   attendanceValue |-> cellValue(lib, row, startCol + 6),
   amountValue |-> cellValue(lib, row, startCol + 8)]

\* exceljs version only: text, else result, else formula, else String(value)
getActualValue(v) ==
  IF v.t \in {"null", "undefined"} THEN <<>>
  ELSE IF v.t = "object" /\ v.o[1].t # "undefined" THEN String(v.o[1])
  ELSE IF v.t = "object" /\ v.o[2].t # "undefined" THEN String(v.o[2])
  ELSE IF v.t = "object" /\ v.o[3].t # "undefined" THEN String(v.o[3])
  ELSE String(v)

\* if (!yearValue || !monthValue || !amountValue) continue
requiredMissingOrNoAmount(c) ==
  ~Truthy(c.yearValue) \/ ~Truthy(c.monthValue) \/ ~Truthy(c.amountValue)

\* if (!yearValue || !monthValue) continue
requiredMissing(c) == ~Truthy(c.yearValue) \/ ~Truthy(c.monthValue)

\* workType and attendance: String(value || "") in the xlsx version,
\* getActualValue(value) in the exceljs version
textOf(lib, v) ==
  IF lib = "xlsx" THEN String(OrElse(v, StringCell(<<>>))) ELSE getActualValue(v)

\* the body of the loop for one row: no row or one row pushed to the result
extractRow(lib, row, startCol) ==
  LET c == readCells(lib, row, startCol)
      year == parseInt(String(c.yearValue))
      month == parseInt(String(c.monthValue))
      amount == parseFloat(String(OrElse(c.amountValue, NumberCell(0))))
  IN IF row.empty THEN <<>>
     ELSE IF requiredMissing(c) THEN <<>>
     ELSE IF isNaN(year) \/ isNaN(month) THEN <<>>
     ELSE <<[year |-> year.n,
             month |-> month.n,
             workType |-> textOf(lib, c.workTypeValue),
             attendance |-> textOf(lib, c.attendanceValue),
             amount |-> IF isNaN(amount) THEN 0 ELSE amount.n]>>

\* worksheet.getRow(rowIndex): a row past the last one is empty
getRow(ws, rowIndex) ==
  IF rowIndex \in 1..Len(ws) THEN ws[rowIndex] ELSE EmptySheetRow

\* the loop over the rows startRow..endRow; rows past the end of the sheet
\* are empty and push nothing
RECURSIVE extractRows(_, _, _, _, _)
extractRows(lib, ws, startCol, rowIndex, endRow) ==
  IF rowIndex > endRow \/ rowIndex > Len(ws) THEN <<>>
  ELSE extractRow(lib, getRow(ws, rowIndex), startCol)
         \o extractRows(lib, ws, startCol, rowIndex + 1, endRow)

RangeError == [thrown |-> TRUE, rows |-> <<>>]
Extracted(rows) == [thrown |-> FALSE, rows |-> rows]

DefaultRange == <<"B", "3", ":", "L", "2", "0", "4">>

\* extractData(worksheet, range).  The exceljs version parses the range with
\* the regular expression and throws when it does not match.  The xlsx
\* version hands the range to sheet_to_json; it is called with the default
\* range only, which the library decodes to the same start and end.
extractData(lib, ws, rangeText) ==
  LET m == rangeMatch(IF lib = "xlsx" THEN DefaultRange ELSE rangeText)
  IN IF m = None THEN RangeError
     ELSE Extracted(extractRows(lib, ws, columnToNumber(m.startCol),
                                parseInt(m.startRow).n, parseInt(m.endRow).n))

-----------------------------------------------------------------------------
(* Claims about the name normaliser *)

\* C11: under the prefix policy, the file name
\* "ACG_식대 정리_Template_<year>년 <half>_" + N + ".xlsx" normalises to exactly
\* N, for every year, every month 1..12 and every name N.
C11_PrefixRoundTrip ==
  (/\ cleanedNamePrefix # None
   /\ storedFileName = TemplateFileName(targetYear, targetMonth, templateName))
    => cleanedNamePrefix.value = templateName

\* the file name without its extension: what precedes its last "."
DeExtensioned(f) ==
  LET dots == {i \in 1..Len(f) : f[i] = "."}
  IN IF dots = {} THEN f
     ELSE SubSeq(f, 1, (CHOOSE i \in dots : \A j \in dots : j <= i) - 1)

HasUnderscore(s) == \E i \in 1..Len(s) : s[i] = "_"

\* what follows the last "_" of s; the whole of s when it has none
AfterLastUnderscore(s) ==
  IF ~HasUnderscore(s) THEN s
  ELSE LET k == CHOOSE i \in 1..Len(s) :
                  s[i] = "_" /\ \A j \in (i + 1)..Len(s) : s[j] # "_"
       IN SubSeq(s, k + 1, Len(s))

\* C12: under the suffix policy the normaliser returns what follows the last
\* underscore of the de-extensioned name, and returns the whole de-extensioned
\* name if and only if that name contains no underscore.
C12_SuffixAfterLastUnderscore ==
  cleanedNameSuffix # None =>
    LET d == DeExtensioned(storedFileName)
    IN /\ cleanedNameSuffix.value = AfterLastUnderscore(d)
       /\ (cleanedNameSuffix.value = d) <=> ~HasUnderscore(d)

\* C12, amended: the normaliser returns what follows the last underscore of
\* the de-extensioned name when that part is not empty; when it is empty (the
\* name ends with an underscore) it returns the whole de-extensioned name;
\* and when the de-extensioned name is itself empty it returns the file name
\* unchanged.
C12_SuffixWithFallbacks ==
  cleanedNameSuffix # None =>
    LET d == DeExtensioned(storedFileName)
    IN cleanedNameSuffix.value =
         (IF d = <<>> THEN storedFileName
          ELSE IF AfterLastUnderscore(d) # <<>> THEN AfterLastUnderscore(d)
          ELSE d)

\* a template file name, with several underscores, reduced to the name
\* after the last one
C12_Witness ==
  /\ cleanedNameSuffix # None
  /\ storedFileName = TemplateFileName(targetYear, targetMonth, <<"i">>)
  /\ cleanedNameSuffix.value = <<"i">>

\* a name that ends with an underscore is returned whole
C12_WitnessTrailingUnderscore ==
  /\ cleanedNameSuffix # None
  /\ storedFileName = <<"i", "_">> \o Extension
  /\ cleanedNameSuffix.value = <<"i", "_">>

-----------------------------------------------------------------------------
(* extractData applied to sheets *)

MaxSheetRows == 2   \* most data rows of a sheet
MaxRangeLen == 6    \* longest range string

Undef == UndefinedCell
FormulaText == StringCell(<<"=", "B", "3">>)

\* what a cell of each mapped column can hold: numbers and strings in both
\* libraries; null and objects (hyperlink text, formula with result, formula
\* without result, rich text) in exceljs only
YearCells(lib) ==
  {NumberCell(2025), StringCell(<<"2", "0", "2", "5">>), NumberCell(0),
   StringCell(<<"0">>), StringCell(<<>>), StringCell(<<" ">>),
   StringCell(<<"2", "0", "2", "5", "nyeon">>), StringCell(<<"nyeon">>)}
  \cup (IF lib = "xlsx" THEN {}
        ELSE {NullCell, ObjectCell(Undef, NumberCell(2025), FormulaText)})

MonthCells(lib) ==
  {NumberCell(3), StringCell(<<"3">>), NumberCell(13), NumberCell(0),
   NumberCell(-1), StringCell(<<>>), StringCell(<<"3", "wol">>)}
  \cup (IF lib = "xlsx" THEN {}
        ELSE {NullCell, ObjectCell(Undef, NumberCell(3), FormulaText)})

WorkTypeCells(lib) ==
  {StringCell(WORK_DAY), StringCell(<<>>), NumberCell(0)}
  \cup (IF lib = "xlsx" THEN {}
        ELSE {NullCell,
              ObjectCell(StringCell(WORK_DAY), Undef, Undef),
              ObjectCell(Undef, StringCell(HOLIDAY_TYPE), FormulaText),
              ObjectCell(StringCell(WORK_DAY), StringCell(HOLIDAY_TYPE), FormulaText),
              ObjectCell(Undef, Undef, FormulaText),
              ObjectCell(Undef, Undef, Undef)})

AttendanceCells(lib) ==
  {StringCell(WORKED), StringCell(<<>>)}
  \cup (IF lib = "xlsx" THEN {}
        ELSE {NullCell, ObjectCell(Undef, StringCell(OFF_MARK), FormulaText)})

AmountCells(lib) ==
  {NumberCell(4500), StringCell(<<"4", "5", "0", "0">>), NumberCell(0),
   NumberCell(-4500), StringCell(<<>>), StringCell(<<" ">>),
   StringCell(<<"4", "5", "0", "0", "won">>), StringCell(<<"won">>)}
  \cup (IF lib = "xlsx" THEN {}
        ELSE {NullCell, ObjectCell(Undef, NumberCell(4500), FormulaText),
              ObjectCell(Undef, Undef, Undef)})

BaseRow ==
  SheetRow(NumberCell(2025), NumberCell(3), StringCell(WORK_DAY), StringCell(WORKED),
           NumberCell(4500))

\* rows of a sheet: the empty row, and a filled row with one cell varied
SheetRowPool(lib) ==
  {EmptySheetRow}
  \cup {[BaseRow EXCEPT !.cells[2] = v] : v \in YearCells(lib)}
  \cup {[BaseRow EXCEPT !.cells[3] = v] : v \in MonthCells(lib)}
  \cup {[BaseRow EXCEPT !.cells[6] = v] : v \in WorkTypeCells(lib)}
  \cup {[BaseRow EXCEPT !.cells[8] = v] : v \in AttendanceCells(lib)}
  \cup {[BaseRow EXCEPT !.cells[10] = v] : v \in AmountCells(lib)}

\* a sheet: title and header in rows 1 and 2, data from row 3
SheetOf(rows) == <<EmptySheetRow, EmptySheetRow>> \o rows
SheetPool(lib) ==
  {SheetOf(rows) : rows \in UNION {[1..n -> SheetRowPool(lib)] : n \in 0..MaxSheetRows}}

RangeAlphabet == {"B", "3", ":", "!"}
RangePool == UNION {[1..n -> RangeAlphabet] : n \in 0..MaxRangeLen}
RangeSheet ==
  SheetOf(<<BaseRow, [BaseRow EXCEPT !.cells[10] = StringCell(<<>>)]>>)

NameIdle ==
  /\ storedFileName = <<>>
  /\ templateName = <<>>
  /\ cleanedNamePrefix = None
  /\ cleanedNameSuffix = None
  /\ writtenNames = None

InitExtract ==
  /\ build = "prefix"
  /\ targetYear = 2025
  /\ targetMonth = 3
  /\ CalcIdle
  /\ NameIdle
  /\ CtlIdle
  /\ SheetsIdle
  /\ excelLib \in {"xlsx", "exceljs"}
  /\ \/ range = DefaultRange /\ worksheet \in SheetPool(excelLib)
     \/ excelLib = "exceljs" /\ range \in RangePool /\ worksheet = RangeSheet
  /\ extractedData = None

ExtractData ==
  /\ extractedData = None
  /\ extractedData' = extractData(excelLib, worksheet, range)
  /\ UNCHANGED <<build, targetYear, targetMonth, calcVars, nameVars, ctlVars,
                 sheetVars, excelLib, worksheet, range>>

NextExtract == ExtractData

SpecExtract == InitExtract /\ [][NextExtract]_vars

-----------------------------------------------------------------------------
(* Claims about extractData *)

\* extractData was called with the default range and returned
ExtractedDefault ==
  /\ extractedData # None
  /\ range = DefaultRange
  /\ ~extractedData.thrown

\* the data rows of the sheet, in sheet order
DataRows == SubSeq(worksheet, 3, Len(worksheet))

Blank(v) ==
  \/ v.t \in {"null", "undefined"}
  \/ v.t = "string" /\ \A i \in 1..Len(v.s) : v.s[i] = " "

ParsesAsInteger(v) == ~isNaN(parseInt(String(v)))

\* the row the claim has extractData emit a result for
ShouldEmit(row) ==
  /\ ~row.empty
  /\ ~Blank(row.cells[2]) /\ ~Blank(row.cells[3])
  /\ ParsesAsInteger(row.cells[2]) /\ ParsesAsInteger(row.cells[3])

\* C13: extractData emits a row if and only if the row is non-empty and both
\* its year cell and its month cell are non-blank and parse as integers; the
\* other rows are dropped without an error, and a dropped row does not stop
\* the rows after it from being extracted.
C13_EmitsIffYearMonthParse ==
  (extractedData # None /\ range = DefaultRange) =>
    /\ ~extractedData.thrown
    /\ LET expected == SelectSeq(DataRows, ShouldEmit)
       IN /\ Len(extractedData.rows) = Len(expected)
          /\ \A k \in 1..Len(expected) :
               /\ extractedData.rows[k].year = parseInt(String(expected[k].cells[2])).n
               /\ extractedData.rows[k].month = parseInt(String(expected[k].cells[3])).n

\* C14: every row extractData emits has an integer year, an integer month in
\* 1..12, and a non-negative amount.
C14_EmittedRowsWellFormed ==
  (extractedData # None /\ ~extractedData.thrown) =>
    \A k \in 1..Len(extractedData.rows) :
      /\ extractedData.rows[k].year \in Int
      /\ extractedData.rows[k].month \in 1..12
      /\ extractedData.rows[k].amount >= 0

\* the row with another amount cell
WithAmount(row, v) == IF row.empty THEN row ELSE [row EXCEPT !.cells[10] = v]

\* the row is emitted whatever its amount cell holds
EmittedWhateverAmount(row) ==
  \A v \in AmountCells(excelLib) \cup {row.cells[10]} :
    extractRow(excelLib, WithAmount(row, v), 2) # <<>>

\* the amount cell is missing, blank, or does not parse as a number
AmountUnusable(v) == Blank(v) \/ isNaN(parseFloat(String(v)))

\* C15: in every emitted row, a missing, blank or unparseable amount cell
\* yields amount 0; the amount cell never causes the row to be dropped and
\* never raises an error.
C15_AmountDefaultsToZero ==
  (extractedData # None /\ range = DefaultRange) =>
    /\ ~extractedData.thrown
    /\ LET emitted == SelectSeq(DataRows, LAMBDA row : ~row.empty /\ EmittedWhateverAmount(row))
           kept == SelectSeq(DataRows, LAMBDA row : extractRow(excelLib, row, 2) # <<>>)
       IN /\ Len(extractedData.rows) = Len(kept)
          /\ kept = emitted
          /\ \A k \in 1..Len(emitted) :
               AmountUnusable(emitted[k].cells[10]) => extractedData.rows[k].amount = 0

\* a row with a blank amount cell is emitted with amount 0, and so is the row
\* after it, whose amount cell does not parse
C15_Witness ==
  /\ ExtractedDefault
  /\ Len(DataRows) = 2
  /\ ~DataRows[1].empty /\ ~DataRows[2].empty
  /\ DataRows[1].cells[10] = StringCell(<<>>)
  /\ DataRows[2].cells[10] = StringCell(<<"won">>)
  /\ Len(extractedData.rows) = 2
  /\ extractedData.rows[1].amount = 0
  /\ extractedData.rows[2].amount = 0

\* displayed text, else computed result, else formula source, else ""
ResolvedText(v) ==
  IF v.o[1].t # "undefined" THEN String(v.o[1])
  ELSE IF v.o[2].t # "undefined" THEN String(v.o[2])
  ELSE IF v.o[3].t # "undefined" THEN String(v.o[3])
  ELSE <<>>

ResolvedCell(v) == IF v.t = "object" THEN StringCell(ResolvedText(v)) ELSE v

\* the sheet with every rich-object cell replaced by the text it resolves to
ResolvedSheet(ws) ==
  [p \in 1..Len(ws) |->
     IF ws[p].empty THEN ws[p]
     ELSE [ws[p] EXCEPT !.cells = [c \in DOMAIN ws[p].cells |-> ResolvedCell(ws[p].cells[c])]]]

\* C16: a rich-object cell resolves to its displayed text, else its computed
\* result, else its formula source, else the empty string, and this applies
\* to every mapped cell (year, month, work type, attendance, amount): the
\* extraction is the one of the sheet with its rich cells resolved.
C16_RichCellsResolved ==
  (extractedData # None /\ range = DefaultRange) =>
    extractedData = extractData(excelLib, ResolvedSheet(worksheet), range)

\* the whole string is <letters><digits>:<letters><digits>
WellFormedRange(s) ==
  \E a, b, d \in 1..Len(s) :
    /\ a < b /\ b + 1 < d /\ d < Len(s)
    /\ \A k \in 1..a : s[k] \in UpperLetters
    /\ \A k \in (a + 1)..b : s[k] \in Digits
    /\ s[b + 1] = ":"
    /\ \A k \in (b + 2)..d : s[k] \in UpperLetters
    /\ \A k \in (d + 1)..Len(s) : s[k] \in Digits

\* C18: the exceljs extractData fails with the range-format error, emitting
\* no rows, for every range string that is not of the form
\* <letters><row>:<letters><row>; it extracts only when the whole range
\* string has that form.
C18_RangeFormatChecked ==
  (extractedData # None /\ excelLib = "exceljs") =>
    (extractedData.thrown <=> ~WellFormedRange(range))

-----------------------------------------------------------------------------
(* CalculationController: validation, the loop over the files, the answers *)

MaxFiles == 2       \* most Excel files in the folder

\* month <= 6 ? "상반기" : "하반기"
getHalfYear(month) ==
  IF month <= 6 THEN <<"sang", "ban", "gi">> ELSE <<"ha", "ban", "gi">>

\* `${year} ${halfYear}`
createFolderName(year, month) ==
  NumberToString(year) \o <<" ">> \o getHalfYear(month)

\* filename.replace(/\.[^/.]+$/, ""), then the part after the last "/"
extractEmployeeName(filename) ==
  LET lastDot == lastIndexOf(filename, ".")
      hasExt == /\ lastDot # -1
                /\ lastDot + 1 < Len(filename)
                /\ \A i \in (lastDot + 2)..Len(filename) : filename[i] # "/"
      nameWithoutExt == IF hasExt THEN SubSeq(filename, 1, lastDot) ELSE filename
  IN SubSeq(nameWithoutExt, lastIndexOf(nameWithoutExt, "/") + 2, Len(nameWithoutExt))

Invalid == [isValid |-> FALSE, year |-> 0, month |-> 0]

\* validateQueryParams(sheetYear, sheetMonth)
validateQueryParams(sheetYear, sheetMonth) ==
  LET year == parseInt(String(sheetYear))
      month == parseInt(String(sheetMonth))
  IN IF ~Truthy(sheetYear) \/ ~Truthy(sheetMonth) THEN Invalid
     ELSE IF isNaN(year) \/ isNaN(month) \/ month.n < 1 \/ month.n > 12 THEN Invalid
     ELSE [isValid |-> TRUE, year |-> year.n, month |-> month.n]

\* `https://storage.googleapis.com/${bucket}/${fileName}`
getPublicUrl(fileName) == <<"https", ":", "public", "/">> \o fileName

\* StorageService.getSignedUrl: the signed link, or the public link when
\* signing fails; it never throws
getSignedUrl(file) ==
  IF file.signed THEN <<"https", ":", "signed", "/">> \o file.name
  ELSE getPublicUrl(file.name)

SheetNotFound == [thrown |-> TRUE, extracted |-> FALSE, rows |-> <<>>]

\* return this.extractData(worksheet, range)
ExtractionOf(r) == [thrown |-> r.thrown, extracted |-> TRUE, rows |-> r.rows]

\* processExcelFile that reads whatever sheet it gets
processExcelFileUnchecked(lib, file) ==
  ExtractionOf(extractData(lib, file.worksheet, DefaultRange))

\* ExcelService.processExcelFile(buffer): throws when the workbook has no
\* sheet "내역", else extracts the default range
processExcelFile(lib, file) ==
  IF ~file.hasSheet THEN SheetNotFound
  ELSE ExtractionOf(extractData(lib, file.worksheet, DefaultRange))

\* where the handler goes after file i: the next file, or past the loop
NextFile(i) ==
  IF i < Len(excelFiles) THEN [pc |-> "download", fileIndex |-> i + 1]
  ELSE [pc |-> "aggregate", fileIndex |-> i + 1]

\* an error of file i that is not caught per file reaches the outer catch
onFileErrorRethrow(i) == [pc |-> "fail", fileIndex |-> i]

\* catch (error) inside the loop: log, then continue with the next file
onFileError(i) == NextFile(i)

Op(name, i) == [op |-> name, file |-> i]

\* the folder is empty, and the handler goes on after the 404 answer
afterNotFoundNoReturn == "aggregate"

\* the return after the 404 answer
afterNotFound == "done"

nothingProcessedNever(dataMap) == FALSE

\* employeeDataMap.size === 0
nothingProcessed(dataMap) == Len(dataMap) = 0

UrlMapSetIfAbsent(urlMap, key, url) ==
  [x \in DOMAIN urlMap \cup {key} |-> IF x \in DOMAIN urlMap THEN urlMap[x] ELSE url]

\* downloadUrlMap.set(employeeName, downloadUrl)
UrlMapSet(urlMap, key, url) ==
  [x \in DOMAIN urlMap \cup {key} |-> IF x = key THEN url ELSE urlMap[x]]

\* how a call of updateGoogleSheetWithAutoCreate ends: it resolves, or it
\* rejects with the Error of createSheet or of updateGoogleSheet
Resolved == [rejected |-> FALSE, message |-> <<>>]
CreateSheetError == [rejected |-> TRUE, message |-> <<"siteu saengseong silpae">>]
UpdateSheetError == [rejected |-> TRUE, message |-> <<"Google Sheets eobdeiteu silpae">>]
SheetWriteOutcomes == {Resolved, CreateSheetError, UpdateSheetError}

NotConfigured == StringCell(<<"SPREADSHEET_ID not configured">>)

sheetsFlagsSetBeforeAwait(spreadsheetId, resultsLength, sheetWrite) ==
  IF spreadsheetId /\ resultsLength > 0
    THEN [called |-> TRUE, googleSheetsUpdated |-> TRUE,
          googleSheetsError |-> IF sheetWrite.rejected THEN StringCell(sheetWrite.message)
                                ELSE UndefinedCell]
  ELSE [called |-> FALSE, googleSheetsUpdated |-> FALSE,
        googleSheetsError |-> IF ~spreadsheetId THEN NotConfigured ELSE UndefinedCell]

\* googleSheetsUpdated and googleSheetsError: the update is attempted when
\* SPREADSHEET_ID is set and there are results, and its failure is caught
sheetsFlags(spreadsheetId, resultsLength, sheetWrite) ==
  IF spreadsheetId /\ resultsLength > 0
    THEN [called |-> TRUE, googleSheetsUpdated |-> ~sheetWrite.rejected,
          googleSheetsError |-> IF sheetWrite.rejected THEN StringCell(sheetWrite.message)
                                ELSE UndefinedCell]
  ELSE [called |-> FALSE, googleSheetsUpdated |-> FALSE,
        googleSheetsError |-> IF ~spreadsheetId THEN NotConfigured ELSE UndefinedCell]

\* request.query.sheetYear / sheetMonth: absent, or a string
QueryYears ==
  {UndefinedCell, StringCell(<<>>), StringCell(<<"2", "0", "2", "5">>),
   StringCell(<<"2", "0", "2", "5", "nyeon">>), StringCell(<<"nyeon">>)}
QueryMonths ==
  {UndefinedCell, StringCell(<<>>), StringCell(<<"3">>), StringCell(<<"1", "2">>),
   StringCell(<<"1", "3">>), StringCell(<<"0">>), StringCell(<<"-", "3">>),
   StringCell(<<"3", "wol">>), StringCell(<<"wol">>)}
QueryPool == [sheetYear : QueryYears, sheetMonth : QueryMonths]
ValidQuery ==
  [sheetYear |-> StringCell(<<"2", "0", "2", "5">>), sheetMonth |-> StringCell(<<"3">>)]

\* names of the files of the folder "2025 상반기"
FileNameOf(name, ext) == createFolderName(2025, 3) \o <<"/">> \o name \o ext
FileNames ==
  {FileNameOf(NameGim, <<".", "x", "l", "s", "x">>),
   FileNameOf(NameI, <<".", "x", "l", "s", "x">>),
   FileNameOf(NameGim, <<".", "x", "l", "s">>)}

SheetA == SheetOf(<<BaseRow>>)
SheetB == SheetOf(<<[BaseRow EXCEPT !.cells[10] = StringCell(<<>>)], BaseRow>>)

\* a file of the folder: whether its download succeeds, whether its workbook
\* has the sheet, the sheet, whether signing its link succeeds
FilePool ==
  UNION {{[name |-> nm, download |-> FALSE, hasSheet |-> TRUE, worksheet |-> SheetA,
           signed |-> TRUE],
          [name |-> nm, download |-> TRUE, hasSheet |-> FALSE, worksheet |-> <<>>,
           signed |-> TRUE],
          [name |-> nm, download |-> TRUE, hasSheet |-> TRUE, worksheet |-> SheetA,
           signed |-> TRUE],
          [name |-> nm, download |-> TRUE, hasSheet |-> TRUE, worksheet |-> SheetA,
           signed |-> FALSE],
          [name |-> nm, download |-> TRUE, hasSheet |-> TRUE, worksheet |-> SheetB,
           signed |-> TRUE]} : nm \in FileNames}

\* the folders: no two files of a folder have the same name
FolderPool ==
  {folder \in UNION {[1..n -> FilePool] : n \in 0..MaxFiles} :
     \A i, j \in 1..Len(folder) : folder[i].name = folder[j].name => i = j}
DefaultFolder ==
  <<[name |-> FileNameOf(NameGim, <<".", "x", "l", "s", "x">>), download |-> TRUE,
     hasSheet |-> TRUE, worksheet |-> SheetA, signed |-> TRUE]>>

InitController ==
  /\ build = "raw"
  /\ targetYear = 0
  /\ targetMonth = 0
  /\ CalcIdle
  /\ NameIdle
  /\ ExtractIdle
  /\ SheetsIdle
  /\ endpoint \in {"calculate", "getFiles"}
  /\ \/ query \in QueryPool /\ excelFiles = DefaultFolder /\ storageUp \in BOOLEAN
     \/ query = ValidQuery /\ excelFiles \in FolderPool /\ storageUp = TRUE
  /\ fileIndex = 0
  /\ pc = "validate"
  /\ responses = <<>>
  /\ trace = <<>>
  /\ responseData = None

\* what no action of the controller changes
ctlFrame ==
  <<build, data, employeeName, emp, phase, nameVars, extractVars, sheetVars,
    endpoint, query, excelFiles, storageUp>>

\* validateQueryParams and the 400 answer, in calculate and in getFiles
Validate ==
  /\ pc = "validate"
  /\ LET validation == validateQueryParams(query.sheetYear, query.sheetMonth)
     IN IF ~validation.isValid
          THEN /\ responses' = Append(responses, 400)
               /\ pc' = "done"
               /\ UNCHANGED <<targetYear, targetMonth>>
          ELSE /\ targetYear' = validation.year
               /\ targetMonth' = validation.month
               /\ pc' = "list"
               /\ UNCHANGED responses
  /\ UNCHANGED <<employeeDataMap, downloadUrlMap, results, fileIndex, trace, responseData, ctlFrame>>

\* calculate: storageService.getExcelFiles(folderName) and the 404 answer
ListExcelFiles ==
  /\ pc = "list"
  /\ endpoint = "calculate"
  /\ trace' = Append(trace, Op("getExcelFiles", 0))
  /\ IF ~storageUp
       THEN pc' = "fail" /\ UNCHANGED <<responses, fileIndex>>
     ELSE IF Len(excelFiles) = 0
       THEN pc' = afterNotFound /\ responses' = Append(responses, 404)
            /\ UNCHANGED fileIndex
     ELSE pc' = "download" /\ fileIndex' = 1 /\ UNCHANGED responses
  /\ UNCHANGED <<targetYear, targetMonth, employeeDataMap, downloadUrlMap, results,
                 responseData, ctlFrame>>

\* storageService.downloadFile(fileInfo.name)
DownloadFile ==
  /\ pc = "download"
  /\ IF excelFiles[fileIndex].download
       THEN /\ trace' = Append(trace, Op("downloadFile", fileIndex))
            /\ pc' = "process"
            /\ UNCHANGED fileIndex
       ELSE /\ trace' = trace \o <<Op("downloadFile", fileIndex), Op("logError", fileIndex)>>
            /\ pc' = onFileError(fileIndex).pc
            /\ fileIndex' = onFileError(fileIndex).fileIndex
  /\ UNCHANGED <<targetYear, targetMonth, employeeDataMap, downloadUrlMap, results,
                 responses, responseData, ctlFrame>>

\* ExcelService.processExcelFile(buffer), extractEmployeeName and
\* employeeDataMap.set(employeeName, excelData)
ProcessFile ==
  /\ pc = "process"
  /\ \E excelData \in {processExcelFile(excelLib, excelFiles[fileIndex])} :
     LET called == <<Op("processExcelFile", fileIndex)>>
                     \o (IF excelData.extracted THEN <<Op("extractData", fileIndex)>>
                         ELSE <<>>)
     IN IF excelData.thrown
          THEN /\ trace' = trace \o called \o <<Op("logError", fileIndex)>>
               /\ pc' = onFileError(fileIndex).pc
               /\ fileIndex' = onFileError(fileIndex).fileIndex
               /\ UNCHANGED employeeDataMap
          ELSE /\ trace' = trace \o called \o <<Op("setData", fileIndex)>>
               /\ employeeDataMap' =
                    MapSet(employeeDataMap, extractEmployeeName(excelFiles[fileIndex].name),
                           excelData.rows)
               /\ pc' = "link"
               /\ UNCHANGED fileIndex
  /\ UNCHANGED <<targetYear, targetMonth, downloadUrlMap, results, responses, responseData, ctlFrame>>

\* storageService.getSignedUrl(fileInfo.name) and
\* downloadUrlMap.set(employeeName, downloadUrl)
LinkFile ==
  /\ pc = "link"
  /\ LET employee == extractEmployeeName(excelFiles[fileIndex].name)
         downloadUrl == getSignedUrl(excelFiles[fileIndex])
     IN downloadUrlMap' = UrlMapSet(downloadUrlMap, employee, downloadUrl)
  /\ trace' = trace \o <<Op("getSignedUrl", fileIndex), Op("setUrl", fileIndex)>>
  /\ pc' = NextFile(fileIndex).pc
  /\ fileIndex' = NextFile(fileIndex).fileIndex
  /\ UNCHANGED <<targetYear, targetMonth, employeeDataMap, results, responses, responseData, ctlFrame>>

\* the 500 answer when no file gave data, else calculateAllEmployees
Aggregate ==
  /\ pc = "aggregate"
  /\ IF nothingProcessed(employeeDataMap)
       THEN /\ responses' = Append(responses, 500)
            /\ pc' = "done"
            /\ UNCHANGED <<results, trace>>
       ELSE /\ results' = calculateAllEmployees(employeeDataMap, downloadUrlMap,
                                                targetYear, targetMonth)
            /\ trace' = Append(trace, Op("calculateAllEmployees", 0))
            /\ pc' = "respond"
            /\ UNCHANGED responses
  /\ UNCHANGED <<targetYear, targetMonth, employeeDataMap, downloadUrlMap, fileIndex,
                 responseData, ctlFrame>>

\* the rest of calculate: the links of the folder (a failure is logged), the
\* Google Sheets update when SPREADSHEET_ID is set (a failure is logged), and
\* response.json(responseData)
Respond(spreadsheetId, sheetWrite) ==
  /\ pc = "respond"
  /\ LET flags == sheetsFlags(spreadsheetId, Len(results), sheetWrite)
     IN /\ trace' = trace \o <<Op("getAllFileDownloadLinks", 0)>>
                       \o (IF flags.called
                             THEN <<Op("updateGoogleSheetWithAutoCreate", 0)>> ELSE <<>>)
                       \o (IF flags.called /\ sheetWrite.rejected
                             THEN <<Op("logError", 0)>> ELSE <<>>)
        /\ responseData' = [results |-> results,
                            processedFiles |-> Len(employeeDataMap),
                            googleSheetsUpdated |-> flags.googleSheetsUpdated,
                            googleSheetsError |-> flags.googleSheetsError]
  /\ responses' = Append(responses, 200)
  /\ pc' = "done"
  /\ UNCHANGED <<targetYear, targetMonth, employeeDataMap, downloadUrlMap, results,
                 fileIndex, ctlFrame>>

\* getFiles: storageService.getFiles(folderName) and the 404 answer
ListFiles ==
  /\ pc = "list"
  /\ endpoint = "getFiles"
  /\ trace' = Append(trace, Op("getFiles", 0))
  /\ IF ~storageUp THEN pc' = "fail" /\ UNCHANGED responses
     ELSE IF Len(excelFiles) = 0
       THEN pc' = "done" /\ responses' = Append(responses, 404)
     ELSE pc' = "zip" /\ UNCHANGED responses
  /\ UNCHANGED <<targetYear, targetMonth, employeeDataMap, downloadUrlMap, results,
                 fileIndex, responseData, ctlFrame>>

\* getFiles: storageService.createFolderZip(folderName), which succeeds or
\* throws, and the answer
CreateFolderZip(ok) ==
  /\ pc = "zip"
  /\ trace' = Append(trace, Op("createFolderZip", 0))
  /\ IF ok THEN pc' = "done" /\ responses' = Append(responses, 200)
     ELSE pc' = "fail" /\ UNCHANGED responses
  /\ UNCHANGED <<targetYear, targetMonth, employeeDataMap, downloadUrlMap, results,
                 fileIndex, responseData, ctlFrame>>

\* the catch around the whole handler: the 500 answer
OuterCatch ==
  /\ pc = "fail"
  /\ responses' = Append(responses, 500)
  /\ pc' = "done"
  /\ UNCHANGED <<targetYear, targetMonth, employeeDataMap, downloadUrlMap, results,
                 fileIndex, trace, responseData, ctlFrame>>

NextController ==
  \/ Validate
  \/ ListExcelFiles
  \/ DownloadFile
  \/ ProcessFile
  \/ LinkFile
  \/ Aggregate
  \/ \E spreadsheetId \in BOOLEAN, sheetWrite \in SheetWriteOutcomes :
       Respond(spreadsheetId, sheetWrite)
  \/ ListFiles
  \/ \E ok \in BOOLEAN : CreateFolderZip(ok)
  \/ OuterCatch

SpecController == InitController /\ [][NextController]_vars

-----------------------------------------------------------------------------
(* Claims about the rows of other years *)

\* the rows of the requested year and month, in their order
TargetRows ==
  SelectSeq(data, LAMBDA row : row.year = targetYear /\ row.month = targetMonth)

\* C27: the numeric fields of an EmployeeResult (workDay, weekendWork,
\* holiday, usedAmount, total, balance) depend only on the rows whose year
\* and month both match the requested year and month: they are what the rows
\* of the requested year and month alone give, and rows of the same month
\* number in another year change none of them.
C27_FieldsIgnoreOtherYears ==
  emp # None =>
    LET alone == calculateEmployee(TargetRows, employeeName, targetYear, targetMonth,
                                   LinkOf(employeeName))
    IN /\ emp.workDay = alone.workDay
       /\ emp.weekendWork = alone.weekendWork
       /\ emp.holiday = alone.holiday
       /\ emp.usedAmount = alone.usedAmount
       /\ emp.total = alone.total
       /\ emp.balance = alone.balance

-----------------------------------------------------------------------------
(* Claims about the name written to the sheet *)

\* C26: name normalisation is idempotent, cleanACGTemplateFileName of an
\* already normalised name gives that name, so the name updateGoogleSheet
\* writes to the sheet (it normalises result.name again) equals the name of
\* the EmployeeResult returned to the HTTP caller.
C26_NormalisationIdempotent ==
  writtenNames # None =>
    /\ writtenNames.prefix = cleanedNamePrefix.value
    /\ writtenNames.suffix = cleanedNameSuffix.value

-----------------------------------------------------------------------------
(* Claims about the controller *)

InTrace(o) == \E k \in 1..Len(trace) : trace[k] = o

\* the iteration of the loop for file i is over
Handled(i) == i \in 1..Len(excelFiles) /\ i < fileIndex

SheetAbsent(i) == excelFiles[i].download /\ ~excelFiles[i].hasSheet

\* the download or the extraction of file i fails
Fails(i) ==
  \/ ~excelFiles[i].download
  \/ ~excelFiles[i].hasSheet
  \/ extractData(excelLib, excelFiles[i].worksheet, DefaultRange).thrown

\* the last file whose rows were stored under the key, or 0
SourceOf(key) ==
  LET S == {i \in 1..Len(excelFiles) :
              InTrace(Op("setData", i)) /\ extractEmployeeName(excelFiles[i].name) = key}
  IN IF S = {} THEN 0 ELSE CHOOSE i \in S : \A j \in S : j <= i

\* C17: when the sheet is absent, processExcelFile fails before any row is
\* extracted; the controller catches the failure, the document adds no entry
\* to the aggregation input, and no calculation is performed for it.
C17_SheetNotFoundSkipsDocument ==
  \A i \in 1..Len(excelFiles) :
    (Handled(i) /\ SheetAbsent(i)) =>
      /\ InTrace(Op("processExcelFile", i))
      /\ ~InTrace(Op("extractData", i))
      /\ InTrace(Op("logError", i))
      /\ pc # "fail"
      /\ ~InTrace(Op("setData", i)) /\ ~InTrace(Op("setUrl", i))
      /\ \A e \in 1..Len(employeeDataMap) : SourceOf(employeeDataMap[e].key) \notin {0, i}
      /\ InTrace(Op("calculateAllEmployees", 0)) =>
           /\ Len(results) = Len(employeeDataMap)
           /\ \A r \in 1..Len(results) :
                \E e \in 1..Len(employeeDataMap) :
                  /\ results[r].name = employeeDataMap[e].key
                  /\ SourceOf(employeeDataMap[e].key) # i

\* the first file has no sheet, the second one is calculated and answered
C17_Witness ==
  /\ Len(excelFiles) = 2
  /\ SheetAbsent(1)
  /\ ~Fails(2)
  /\ pc = "done"
  /\ responses = <<200>>
  /\ Len(results) = 1

C20_WitnessPublicLink ==
  /\ Len(excelFiles) = 2
  /\ ~Fails(1) /\ ~excelFiles[1].signed
  /\ ~Fails(2)
  /\ extractEmployeeName(excelFiles[1].name) # extractEmployeeName(excelFiles[2].name)
  /\ pc = "done"
  /\ responses = <<200>>
  /\ endpoint = "calculate"
  /\ downloadUrlMap[extractEmployeeName(excelFiles[1].name)] = getPublicUrl(excelFiles[1].name)

\* the parameter is present and is an optional sign followed by digits only
WellFormedInteger(v) ==
  /\ v.t = "string"
  /\ LET ds == IF v.s # <<>> /\ v.s[1] \in {"+", "-"} THEN Tail(v.s) ELSE v.s
     IN ds # <<>> /\ \A i \in 1..Len(ds) : ds[i] \in Digits

QueryMalformed ==
  \/ ~WellFormedInteger(query.sheetYear)
  \/ ~WellFormedInteger(query.sheetMonth)
  \/ parseInt(String(query.sheetMonth)).n \notin 1..12

\* C19: in calculate and getFiles, when sheetYear or sheetMonth is missing or
\* not a well-formed integer, or the month is outside 1..12, the answer is 400
\* and no storage, extraction, calculation or spreadsheet operation is
\* performed; the core only runs with an integer year and a month in 1..12.
C19_MalformedQueryRejected ==
  (pc # "idle") =>
    /\ QueryMalformed =>
         /\ trace = <<>>
         /\ pc \in {"validate", "done"}
         /\ pc = "done" => responses = <<400>>
    /\ trace # <<>> => targetYear \in Int /\ targetMonth \in 1..12

AllFilesFail ==
  /\ endpoint = "calculate"
  /\ Len(excelFiles) >= 1
  /\ \A i \in 1..Len(excelFiles) : Fails(i)

\* C21: in calculate, when the folder lists at least one Excel file and the
\* processing of every one of them fails, the answer is the 500 of "nothing to
\* process", and neither calculateAllEmployees nor the spreadsheet write is
\* called.
C21_AllFilesFailedIsFatal ==
  AllFilesFail =>
    /\ ~InTrace(Op("calculateAllEmployees", 0))
    /\ ~InTrace(Op("updateGoogleSheetWithAutoCreate", 0))
    /\ Len(employeeDataMap) = 0
    /\ pc \notin {"respond", "fail"}
    /\ pc = "done" =>
         /\ responses = <<500>>
         /\ responseData = None
         /\ \A i \in 1..Len(excelFiles) : InTrace(Op("logError", i))

\* two files are listed, one cannot be downloaded and the other has no
\* sheet, and the request is answered
C21_Witness ==
  /\ AllFilesFail
  /\ Len(excelFiles) = 2
  /\ ~excelFiles[1].download
  /\ SheetAbsent(2)
  /\ pc = "done"
  /\ responses = <<500>>

\* C23: every invocation of calculate sends exactly one HTTP response on
\* every execution path (validation failure, empty folder, all files failed,
\* success, sheet-write failure, unexpected exception): a handler that is not
\* over has sent none and is at a statement it can execute, a handler that is
\* over has sent one, and none sends a second.
C23_ExactlyOneResponse ==
  (endpoint = "calculate" /\ pc # "idle") =>
    /\ Len(responses) <= 1
    /\ pc = "done" <=> Len(responses) = 1
    /\ pc \in {"validate", "list", "download", "process", "link", "aggregate",
              "respond", "fail", "done"}
    /\ pc \in {"download", "process", "link"} => fileIndex \in 1..Len(excelFiles)
    /\ pc = "respond" => Len(results) > 0

\* listing the folder threw and the outer catch answered
C23_Witness ==
  /\ endpoint = "calculate"
  /\ ~storageUp
  /\ InTrace(Op("getExcelFiles", 0))
  /\ pc = "done"
  /\ responses = <<500>>

\* the folder is empty and the 404 answer is the only one
C23_WitnessNotFound ==
  /\ endpoint = "calculate"
  /\ Len(excelFiles) = 0
  /\ pc = "done"
  /\ responses = <<404>>

\* the last file whose link was stored under the key, or 0
LinkSourceOf(key) ==
  LET S == {i \in 1..Len(excelFiles) :
              InTrace(Op("setUrl", i)) /\ extractEmployeeName(excelFiles[i].name) = key}
  IN IF S = {} THEN 0 ELSE CHOOSE i \in S : \A j \in S : j <= i

\* the rows and the link stored under the key are those of one file
SameSourceFile(key) ==
  /\ LinkSourceOf(key) = SourceOf(key)
  /\ downloadUrlMap[key] \in {<<"https", ":", "signed", "/">> \o excelFiles[SourceOf(key)].name,
                              <<"https", ":", "public", "/">> \o excelFiles[SourceOf(key)].name}

\* C24: for every employee key of the aggregation input built by calculate,
\* the rows and the download link stored under the key come from the same
\* source file, in every reachable state of the file loop, also when two
\* listed files give the same employee name and when signing the link fails
\* after the rows were stored.
C24_RowsAndLinkSameFile ==
  endpoint = "calculate" =>
    \A e \in 1..Len(employeeDataMap) :
      employeeDataMap[e].key \in DOMAIN downloadUrlMap =>
        SameSourceFile(employeeDataMap[e].key)

\* C24 as it holds: whenever the handler is not between employeeDataMap.set
\* and downloadUrlMap.set of one file, every key of the aggregation input has
\* a link, and its rows and its link are those of the same file, the last
\* listed file of that employee name that was processed.
C24_SameFileBetweenFiles ==
  (endpoint = "calculate" /\ pc # "link") =>
    \A e \in 1..Len(employeeDataMap) :
      /\ employeeDataMap[e].key \in DOMAIN downloadUrlMap
      /\ SameSourceFile(employeeDataMap[e].key)
      /\ \A i \in 1..Len(excelFiles) :
           (Handled(i) /\ ~Fails(i)
              /\ extractEmployeeName(excelFiles[i].name) = employeeDataMap[e].key)
             => i <= SourceOf(employeeDataMap[e].key)

\* two files of one employee name were processed, signing the link of the
\* second failed, and the key holds the public link of the second file
C24_Witness ==
  /\ endpoint = "calculate"
  /\ Len(excelFiles) = 2
  /\ ~Fails(1) /\ ~Fails(2)
  /\ excelFiles[1].signed /\ ~excelFiles[2].signed
  /\ extractEmployeeName(excelFiles[1].name) = extractEmployeeName(excelFiles[2].name)
  /\ pc = "done"
  /\ Len(employeeDataMap) = 1
  /\ SourceOf(employeeDataMap[1].key) = 2
  /\ downloadUrlMap[employeeDataMap[1].key] = getPublicUrl(excelFiles[2].name)

\* the spreadsheet write was called and returned without an error
SheetWriteCompleted ==
  /\ InTrace(Op("updateGoogleSheetWithAutoCreate", 0))
  /\ ~InTrace(Op("logError", 0))

\* C28: a failure of the spreadsheet write never fails the calculate request:
\* whenever at least one file was processed, the answer carries the computed
\* results, googleSheetsUpdated is true exactly when the sheet write completed
\* without an error, and googleSheetsError is set whenever googleSheetsUpdated
\* is false.
C28_SheetFailureIsReported ==
  (endpoint = "calculate" /\ pc = "done" /\ Len(employeeDataMap) >= 1) =>
    /\ responses = <<200>>
    /\ responseData # None
    /\ responseData.results =
         calculateAllEmployees(employeeDataMap, downloadUrlMap, targetYear, targetMonth)
    /\ Len(responseData.results) = Len(employeeDataMap)
    /\ responseData.processedFiles = Len(employeeDataMap)
    /\ responseData.googleSheetsUpdated <=> SheetWriteCompleted
    /\ ~responseData.googleSheetsUpdated =>
         /\ responseData.googleSheetsError.t = "string"
         /\ responseData.googleSheetsError.s # <<>>

\* a file was processed, the spreadsheet write was called and failed, and
\* the request was answered with the results
C28_Witness ==
  /\ endpoint = "calculate"
  /\ pc = "done"
  /\ Len(employeeDataMap) >= 1
  /\ InTrace(Op("updateGoogleSheetWithAutoCreate", 0))
  /\ InTrace(Op("logError", 0))
  /\ responses = <<200>>
  /\ ~responseData.googleSheetsUpdated
  /\ Len(responseData.results) = 2

-----------------------------------------------------------------------------
(* GoogleSheetsService: services/storageService.ts                         *)

\* `${sheetYear}년 ${sheetMonth}월`
sheetNameOf(sheetYear, sheetMonth) ==
  NumberToString(sheetYear) \o <<"nyeon", " ">> \o NumberToString(sheetMonth) \o <<"wol">>

\* addHeaders: the header row and the row of the range A3:J3
headerValues ==
  <<<<"No.">>, <<"seong", "myeong">>, <<"geun", "mu", "il">>, <<"hyu", "il">>,
    <<"ju", "mal", "geun", "mu">>, <<"chong", "geum", "aek">>,
    <<"sa", "yong", "geum", "aek">>, <<"jan", "yeo", "geum", "aek">>,
    <<"jeong", "san", "yeo", "bu">>, <<"eg", "sel", "pa", "il">>>>
HeaderRow == 3

\* updateGoogleSheet: the first row of the range A4:J${lastRowIndex}
FirstResultRow == 4
lastRowIndex(batch) == Len(batch) + 6

\* `=HYPERLINK("${result.downloadUrl}", "엑셀파일 다운로드")`
HYPERLINK(downloadUrl) ==
  <<"=HYPERLINK(", "\"">> \o downloadUrl
    \o <<"\"", ",", " ", "\"", "eg", "sel", "pa", "il", " ", "da", "un", "lo", "deu", "\"", ")">>

\* results.map((result, index) => [...]): the rows of columns A to J
valuesOf(batch, sheetYear, sheetMonth) ==
  [index \in 1..Len(batch) |->
     <<index,
       cleanedNameOf(batch[index].name, sheetYear, sheetMonth),
       batch[index].workDay,
       batch[index].holiday,
       batch[index].weekendWork,
       batch[index].total,
       batch[index].usedAmount,
       batch[index].balance,
       <<>>,
       HYPERLINK(batch[index].downloadUrl)>>]

\* spreadsheets.values.update: the rows land from firstRow on, the other
\* rows of the sheet keep their cells
writeRows(cells, firstRow, values) ==
  [row \in DOMAIN cells \cup (firstRow..(firstRow + Len(values) - 1)) |->
     IF row \in firstRow..(firstRow + Len(values) - 1) THEN values[row - firstRow + 1]
     ELSE cells[row]]

needsCreateAlways(exists) == TRUE

\* if (!exists) of updateGoogleSheetWithAutoCreate
needsCreate(exists) == ~exists

\* a Google Sheets API call of request r, with what the call found and did
ApiCall(r, name, ok, present, firstRow, values) ==
  [req |-> r, step |-> Len(requests[r].calls) + 1, call |-> name, ok |-> ok,
   present |-> present, firstRow |-> firstRow, values |-> values]

\* an API call fails when the service is faulty and chooses to
Outcomes == IF apiFaults THEN BOOLEAN ELSE {TRUE}

\* the batches of results of the requests
ResultNames == <<NameGim, NameI, NameGimNFD>>
ResultOf(k) ==
  [name |-> ResultNames[((k - 1) % Len(ResultNames)) + 1],
   workDay |-> k, holiday |-> 0, weekendWork |-> 1,
   total |-> (k + 1) * DAILY_AMOUNT, balance |-> k * DAILY_AMOUNT,
   usedAmount |-> DAILY_AMOUNT,
   downloadUrl |-> LinkOf(ResultNames[((k - 1) % Len(ResultNames)) + 1])]
BatchPool == {[k \in 1..1 |-> ResultOf(2)], [k \in 1..MaxResults |-> ResultOf(k)]}

\* the sheet of the month before the requests: absent, created by hand
\* without a header, with the header, or with the rows of an earlier write
SheetPool0 ==
  {NoSheet,
   [exists |-> TRUE, cells |-> <<>>],
   [exists |-> TRUE, cells |-> writeRows(<<>>, HeaderRow, <<headerValues>>)],
   [exists |-> TRUE,
    cells |-> writeRows(writeRows(<<>>, HeaderRow, <<headerValues>>), FirstResultRow,
                        valuesOf(<<ResultOf(3), ResultOf(1), ResultOf(2)>>, 2025, 3))]}

InitSheets ==
  /\ build \in {"prefix", "suffix"}
  /\ targetYear = 2025
  /\ targetMonth = 3
  /\ CalcIdle
  /\ NameIdle
  /\ ExtractIdle
  /\ CtlIdle
  /\ spreadsheet \in SheetPool0
  /\ apiFaults \in BOOLEAN
  /\ apiCalls = {}
  /\ \E n \in 1..MaxRequests :
       requests \in [1..n -> [pc : {"check"}, results : BatchPool, exists : {FALSE},
                              calls : {<<>>}, outcome : {None}]]

sheetsFrame ==
  <<build, targetYear, targetMonth, calcVars, nameVars, extractVars, ctlVars, apiFaults>>

\* checkSheetExists: spreadsheets.get and the search of the title; an error
\* of the call is caught and answered with false
CheckSheetExists(r, ok) ==
  /\ requests[r].pc = "check"
  /\ LET call == ApiCall(r, "get", ok, spreadsheet.exists, 0, <<>>)
         exists == IF ok THEN spreadsheet.exists ELSE FALSE
     IN /\ apiCalls' = apiCalls \cup {call}
        /\ requests' = [requests EXCEPT ![r].pc = IF needsCreate(exists) THEN "create"
                                                  ELSE "update",
                                        ![r].exists = exists,
                                        ![r].calls = Append(@, call)]
  /\ UNCHANGED <<spreadsheet, sheetsFrame>>

\* createSheet: batchUpdate addSheet, which the service refuses when a sheet
\* of that title exists; the error is rethrown as "시트 생성 실패"
AddSheet(r, ok) ==
  /\ requests[r].pc = "create"
  /\ LET done == ok /\ ~spreadsheet.exists
         call == ApiCall(r, "addSheet", done, spreadsheet.exists, 0, <<>>)
     IN /\ apiCalls' = apiCalls \cup {call}
        /\ spreadsheet' = IF done THEN [exists |-> TRUE, cells |-> <<>>] ELSE spreadsheet
        /\ requests' = [requests EXCEPT ![r].pc = IF done THEN "headers" ELSE "done",
                                        ![r].outcome = IF done THEN @ ELSE CreateSheetError,
                                        ![r].calls = Append(@, call)]
  /\ UNCHANGED sheetsFrame

\* createSheet: await this.addHeaders(spreadsheetId, sheetName)
AddHeaders(r, ok) ==
  /\ requests[r].pc = "headers"
  /\ LET call == ApiCall(r, "headers", ok, spreadsheet.exists, HeaderRow, <<headerValues>>)
     IN /\ apiCalls' = apiCalls \cup {call}
        /\ spreadsheet' =
             IF ok THEN [spreadsheet EXCEPT !.cells = writeRows(@, HeaderRow, <<headerValues>>)]
             ELSE spreadsheet
        /\ requests' = [requests EXCEPT ![r].pc = IF ok THEN "update" ELSE "done",
                                        ![r].outcome = IF ok THEN @ ELSE CreateSheetError,
                                        ![r].calls = Append(@, call)]
  /\ UNCHANGED sheetsFrame

\* updateGoogleSheet: spreadsheets.values.update of the range from A4; the
\* error is rethrown as "Google Sheets 업데이트 실패"
UpdateGoogleSheet(r, ok) ==
  /\ requests[r].pc = "update"
  /\ LET values == valuesOf(requests[r].results, targetYear, targetMonth)
         done == ok /\ spreadsheet.exists
         call == ApiCall(r, "values", done, spreadsheet.exists, FirstResultRow, values)
     IN /\ apiCalls' = apiCalls \cup {call}
        /\ spreadsheet' =
             IF done THEN [spreadsheet EXCEPT !.cells = writeRows(@, FirstResultRow, values)]
             ELSE spreadsheet
        /\ requests' = [requests EXCEPT ![r].pc = "done",
                                        ![r].outcome = IF done THEN Resolved
                                                       ELSE UpdateSheetError,
                                        ![r].calls = Append(@, call)]
  /\ UNCHANGED sheetsFrame

NextSheets ==
  \E r \in 1..Len(requests), ok \in Outcomes :
    \/ CheckSheetExists(r, ok)
    \/ AddSheet(r, ok)
    \/ AddHeaders(r, ok)
    \/ UpdateGoogleSheet(r, ok)

SpecSheets == InitSheets /\ [][NextSheets]_vars

-----------------------------------------------------------------------------
(* Claims about the spreadsheet write *)

Made(r, name) == \E k \in 1..Len(requests[r].calls) : requests[r].calls[k].call = name

\* the call of that name of request r; a request makes each call at most once
CallOf(r, name) ==
  requests[r].calls[CHOOSE k \in 1..Len(requests[r].calls) :
                      requests[r].calls[k].call = name]

\* request r created the sheet
Created(r) == Made(r, "addSheet") /\ CallOf(r, "addSheet").ok

\* the rows request r wrote are the rows of the sheet: no other request wrote
OnlyWriter(r) ==
  \A c \in apiCalls : (c.call = "values" /\ c.ok) => c.req = r

\* C22: updateGoogleSheetWithAutoCreate creates the sheet and writes the
\* header row (row 3) exactly when the sheet is absent; in every run the
\* creation and the header write are over before the run writes a result
\* row; the result rows go to row 4 and below, one per EmployeeResult in the
\* given order, the last column being the HYPERLINK formula on downloadUrl.
C22_SheetAutoCreate ==
  \A r \in 1..Len(requests) :
    LET run == requests[r]
    IN /\ run.pc # "check" =>
            /\ Made(r, "get") /\ CallOf(r, "get").step = 1
            /\ (Made(r, "addSheet") \/ run.pc = "create")
                 <=> ~(CallOf(r, "get").ok /\ CallOf(r, "get").present)
       /\ Created(r) =>
            /\ ~CallOf(r, "addSheet").present
            /\ spreadsheet.exists
       /\ Made(r, "headers") =>
            /\ Created(r)
            /\ CallOf(r, "addSheet").step < CallOf(r, "headers").step
            /\ CallOf(r, "headers").firstRow = 3
            /\ CallOf(r, "headers").ok => spreadsheet.cells[3] = headerValues
       /\ run.outcome = Resolved => (Created(r) <=> ~CallOf(r, "get").present)
       /\ Made(r, "values") =>
            LET write == CallOf(r, "values")
            IN /\ Made(r, "addSheet") =>
                    /\ Created(r)
                    /\ Made(r, "headers") /\ CallOf(r, "headers").ok
                    /\ CallOf(r, "headers").step < write.step
               /\ write.firstRow = 4
               /\ Len(write.values) = Len(run.results)
               /\ \A i \in 1..Len(run.results) :
                    /\ write.values[i][1] = i
                    /\ Len(write.values[i]) = 10
                    /\ write.values[i][10] =
                         <<"=HYPERLINK(", "\"">> \o run.results[i].downloadUrl
                           \o <<"\"", ",", " ", "\"", "eg", "sel", "pa", "il", " ",
                                "da", "un", "lo", "deu", "\"", ")">>
                    /\ (write.ok /\ OnlyWriter(r)) =>
                         spreadsheet.cells[3 + i] = write.values[i]
       /\ (run.pc = "done" /\ ~Made(r, "values")) => run.outcome = CreateSheetError

\* a single request found no sheet, created it with its header and wrote two
\* result rows
C22_Witness ==
  /\ Len(requests) = 1
  /\ requests[1].outcome = Resolved
  /\ Created(1)
  /\ Len(requests[1].results) = 2
  /\ spreadsheet.cells[3] = headerValues
  /\ spreadsheet.cells[5][1] = 2
  /\ spreadsheet.cells[5][10] = HYPERLINK(requests[1].results[2].downloadUrl)

\* a request found the sheet of an earlier month's write and created nothing
C22_WitnessPresent ==
  /\ Len(requests) = 1
  /\ requests[1].outcome = Resolved
  /\ ~Made(1, "addSheet")
  /\ CallOf(1, "get").present
  /\ 6 \in DOMAIN spreadsheet.cells

\* the sheet was absent when the requests came in
InitiallyAbsent ==
  \/ ~spreadsheet.exists
  \/ \E c \in apiCalls : c.call = "addSheet" /\ c.ok

AllDone == \A r \in 1..Len(requests) : requests[r].pc = "done"

\* C25: concurrent calculate requests of one year and month, the sheet being
\* absent at first: in every interleaving of their check, create and write
\* steps the sheet is created exactly once, no request tries to create a
\* sheet that exists, and the write of every request completes.
C25_ConcurrentRequestsAllSucceed ==
  (~apiFaults /\ InitiallyAbsent /\ AllDone) =>
    /\ Cardinality({c \in apiCalls : c.call = "addSheet" /\ c.ok}) = 1
    /\ \A c \in apiCalls : c.call = "addSheet" => ~c.present
    /\ \A r \in 1..Len(requests) : requests[r].outcome = Resolved

=============================================================================
